---- MODULE Spec2Model ----
(***************************************************************************)
(* Grafana Cloud secrets engine: the upstream client cache (getClient,     *)
(* reset), the configuration and role stores, and the credential           *)
(* lifecycle (issue, renew, revoke).                                       *)
(*                                                                         *)
(* The specifications share the state and the pure operators:             *)
(*   Spec          one request at a time, each handler one atomic action;  *)
(*   SpecCache     concurrent requests on the client cache, one action per *)
(*                 lock operation, storage access or assignment;           *)
(*   SpecIssue     configuration, roles and issuing alone;                 *)
(*   SpecRoles     the role store alone, requests kept with responses;     *)
(*   SpecRoleLife  a role written, read, listed, issued against, deleted;  *)
(*   SpecConfig    the configuration store and the client cache;           *)
(*   SpecRevoke    an engine that carries a lease without a type entry;    *)
(*   SpecUser      configuration writes that set the users, and issuing;   *)
(*   SpecInFlight  an Issue in two steps with requests in between;         *)
(*   SpecCased     roles under names that differ in case, and issuing.     *)
(*                                                                         *)
(* Strings that the code inspects character by character (URLs, decimal    *)
(* ids) are sequences of one-character strings; other strings are TLA+     *)
(* strings.  A nil pointer or absent storage entry is the empty sequence   *)
(* Nil, a present value x is <<x>>.                                        *)
(***************************************************************************)
EXTENDS Integers, Sequences, FiniteSets, TLC

Nil == <<>>
Some(x) == <<x>>
Val(o) == o[1]

\* ------------------------------------------------------------------ bounds
\* Client instances that may be constructed in one behaviour.
MaxClients == 2
\* Successful configuration mutations (put or delete) in one behaviour.
MaxMut == 1

\* ----------------------------------------------------------------- strings
UpperCase == <<"A","B","C","D","E","F","G","H","I","J","K","L","M",
               "N","O","P","Q","R","S","T","U","V","W","X","Y","Z">>
LowerCase == <<"a","b","c","d","e","f","g","h","i","j","k","l","m",
               "n","o","p","q","r","s","t","u","v","w","x","y","z">>

LowerChar(c) ==
  IF \E i \in 1..Len(UpperCase) : UpperCase[i] = c
  THEN LowerCase[CHOOSE i \in 1..Len(UpperCase) : UpperCase[i] = c]
  ELSE c

ToLower(s) == [i \in 1..Len(s) |-> LowerChar(s[i])]

HasSuffix(s, suffix) ==
  /\ Len(s) >= Len(suffix)
  /\ SubSeq(s, Len(s) - Len(suffix) + 1, Len(s)) = suffix

TrimSuffix(s, suffix) ==
  IF HasSuffix(s, suffix) THEN SubSeq(s, 1, Len(s) - Len(suffix)) ELSE s

IsLetter(c) ==
  \/ \E i \in 1..Len(UpperCase) : UpperCase[i] = c
  \/ \E i \in 1..Len(LowerCase) : LowerCase[i] = c

\* url.ParseRequestURI(u) succeeds and u.IsAbs(): u is non-empty and starts
\* with a scheme, letters followed by ":".
ValidAbsURL(u) ==
  \E i \in 2..Len(u) :
    /\ u[i] = ":"
    /\ \A j \in 1..(i - 1) : IsLetter(u[j])

\* URLs used as inputs.
UrlRoot   == <<"h", ":", "/", "/", "g", "/">>
UrlApi    == <<"h", ":", "/", "/", "g", "/", "a", "p", "i">>
UrlApiSl  == <<"h", ":", "/", "/", "g", "/", "A", "p", "i", "/">>
UrlUpper  == <<"h", ":", "/", "/", "G", "/", "x">>
UrlXapi   == <<"h", ":", "/", "/", "g", "/", "x", "a", "p", "i">>
UrlNoAbs  == <<"/", "a">>
UrlProm   == <<"h", ":", "/", "/", "p">>

\* ----------------------------------------------------------- configuration
ConfigFields ==
  {"organisation", "key", "url", "user",
   "prometheus_user", "prometheus_url", "loki_user", "loki_url",
   "tempo_user", "tempo_url", "alertmanager_user", "alertmanager_url",
   "graphite_user", "graphite_url"}

\* new(grafanaCloudConfig): every field the empty string.
EmptyConfig ==
  [Organisation |-> "", Key |-> "", URL |-> <<>>, User |-> "",
   PrometheusUser |-> "", PrometheusURL |-> <<>>,
   LokiUser |-> "", LokiURL |-> <<>>,
   TempoUser |-> "", TempoURL |-> <<>>,
   AlertmanagerUser |-> "", AlertmanagerURL |-> <<>>,
   GraphiteUser |-> "", GraphiteURL |-> <<>>]

\* data.GetOk(k): the field was supplied in the request.
GetOk(data, k) == k \in DOMAIN data

\* One "if v, ok := data.GetOk(k); ok { config.F = v }" of pathConfigWrite.
SetIfOk(config, data, k, f) ==
  IF GetOk(data, k) THEN [config EXCEPT ![f] = data[k]] ELSE config

\* A telemetry URL supplied in the request must be an absolute URL.
BadUrlField(data, k) == GetOk(data, k) /\ ~ValidAbsURL(data[k])

\* A write that starts from an empty configuration every time.
ConfigToMergeFresh(stored) == EmptyConfig

\* The configuration pathConfigWrite assigns the request's fields to: the one
\* getConfig read, a new one when there is none.
ConfigToMerge(stored) == IF stored = Nil THEN EmptyConfig ELSE Val(stored)

\* pathConfigWrite up to the storage put: the error ("" when none) and the
\* configuration that is put.  stored is the entry read by getConfig.
ConfigWriteResult(stored, data, createOperation) ==
  LET c0 == ConfigToMerge(stored)
      c1 == SetIfOk(c0, data, "organisation", "Organisation")
      c2 == SetIfOk(c1, data, "key", "Key")
      c3 == SetIfOk(c2, data, "url", "URL")
      c4 == SetIfOk(c3, data, "user", "User")
      c5 == IF GetOk(data, "prometheus_user")
            THEN [c4 EXCEPT !.PrometheusUser = data["prometheus_user"],
                            !.User = data["prometheus_user"]]
            ELSE c4
      c6 == SetIfOk(c5, data, "loki_user", "LokiUser")
      c7 == SetIfOk(c6, data, "tempo_user", "TempoUser")
      c8 == SetIfOk(c7, data, "alertmanager_user", "AlertmanagerUser")
      c9 == SetIfOk(c8, data, "graphite_user", "GraphiteUser")
      c10 == SetIfOk(c9, data, "prometheus_url", "PrometheusURL")
      c11 == SetIfOk(c10, data, "loki_url", "LokiURL")
      c12 == SetIfOk(c11, data, "tempo_url", "TempoURL")
      c13 == SetIfOk(c12, data, "alertmanager_url", "AlertmanagerURL")
      c14 == SetIfOk(c13, data, "graphite_url", "GraphiteURL")
      err ==
        IF stored = Nil /\ ~createOperation
          THEN "config not found during update operation"
        ELSE IF c1.Organisation = "" /\ createOperation
          THEN "missing organisation in configuration"
        ELSE IF c2.Key = "" /\ createOperation
          THEN "missing key in configuration"
        ELSE IF BadUrlField(data, "url")
          THEN "invalid url in configuration"
        ELSE IF ~GetOk(data, "url") /\ createOperation
          THEN "missing url in configuration"
        ELSE IF BadUrlField(data, "prometheus_url")
          THEN "invalid prometheus_url in configuration"
        ELSE IF BadUrlField(data, "loki_url")
          THEN "invalid loki_url in configuration"
        ELSE IF BadUrlField(data, "tempo_url")
          THEN "invalid tempo_url in configuration"
        ELSE IF BadUrlField(data, "alertmanager_url")
          THEN "invalid alertmanager_url in configuration"
        ELSE IF BadUrlField(data, "graphite_url")
          THEN "invalid graphite_url in configuration"
        ELSE ""
  IN [err |-> err, config |-> c14]

\* ------------------------------------------------------------ client cache
apiSuffix == <<"a", "p", "i">>

\* The base URL getClient hands to the client library.
BaseUrl(url) ==
  LET baseUrl == ToLower(url)
  IN IF HasSuffix(baseUrl, apiSuffix)
       THEN TrimSuffix(baseUrl, apiSuffix)
     ELSE IF HasSuffix(baseUrl, apiSuffix \o <<"/">>)
       THEN TrimSuffix(baseUrl, apiSuffix \o <<"/">>)
     ELSE baseUrl

\* "if config == nil { config = new(grafanaCloudConfig) }"
ConfigOrEmpty(entry) == IF entry = Nil THEN EmptyConfig ELSE Val(entry)

\* A client built without the configured admin key.
NewClientNoKey(id, config, ver) ==
  [id |-> id, url |-> BaseUrl(config.URL), key |-> "", ver |-> ver]

\* grafanclient.New(baseUrl, Config{APIKey: config.Key}): the instance with
\* identity id.  ver is the storage version the configuration was read at
\* (history, not program state).
NewClient(id, config, ver) ==
  [id |-> id, url |-> BaseUrl(config.URL), key |-> config.Key, ver |-> ver]

\* ------------------------------------------------------------------- state
Threads == {"t1", "t2"}
NoThread == "-"

VARIABLES
  storedConfig,  \* storage entry "config": Nil or <<grafanaCloudConfig>>
  client,        \* b.client: Nil or <<client instance>>
  lockW,         \* b.lock: the thread that holds or is acquiring the write side
  readers,       \* b.lock: threads holding the read lock
  rWait,         \* b.lock: threads blocked in RLock behind a writer
  pc,            \* each thread's position in its handler
  op,            \* each thread's current request
  lcfg,          \* each thread's local result of getConfig
  res,           \* each thread's result (value, error)
  nextId,        \* history: identity of the next client instance
  ver,           \* history: number of successful changes of the stored config
  startMark,     \* history: per Get, nextId at the last reset completed before it began
  resetMark,     \* history: nextId when the last reset completed
  putVer,        \* history: per write/delete, the storage version it produced
  builds,        \* history: instances constructed since the cache was last cleared
  acq,           \* history: per request, lock acquisitions (read, write)
  rel,           \* history: per request, lock releases (read, write)
  roles,         \* storage entries "roles/<name>": Nil or <<grafanaCloudRoleEntry>>
  cloudKeys,     \* upstream: organisation keys that exist, (org, name)
  grafanaKeys,   \* upstream: instance keys that exist, (stack, id)
  leases,        \* host: the lease metadata of the credentials issued so far
  calls,         \* upstream calls made by the latest handler, in order
  out,           \* what the latest handler returned
  nextUuid,      \* history: number of uuids drawn for keys created upstream
  lastGet,       \* history: instance the latest successful getClient returned
  mutMark        \* history: nextId at the last successful config write/delete

cacheVars ==
  <<storedConfig, client, lockW, readers, rWait, pc, op, lcfg, res,
    nextId, ver, startMark, resetMark, putVer, builds, acq, rel>>

lifeVars ==
  <<roles, cloudKeys, grafanaKeys, leases, calls, out, nextUuid,
    lastGet, mutMark>>

\* What only the concurrent specification changes.
threadVars ==
  <<lockW, readers, rWait, pc, op, lcfg, res, startMark, resetMark, putVer,
    builds, acq, rel>>

vars == <<cacheVars, lifeVars>>

\* Role names used in requests on roles/<name>.
RoleNames == {<<"a">>}

\* Role names the storage is followed for.
StoredNames == {<<"a">>, <<"b">>}

\* req is the request of the handler where a specification keeps it, Nil
\* where it does not.
NoOut ==
  [op |-> "", err |-> "", resp |-> Nil, lease |-> Nil, cancelled |-> FALSE,
   req |-> Nil]

NoResult == [val |-> Nil, err |-> ""]
NoLocal == [entry |-> Nil, ver |-> 0]
NoLocks == [r |-> 0, w |-> 0]

Init ==
  /\ storedConfig = Nil
  /\ client = Nil
  /\ lockW = NoThread
  /\ readers = {}
  /\ rWait = {}
  /\ pc = [t \in Threads |-> "idle"]
  /\ op = [t \in Threads |-> "idle"]
  /\ lcfg = [t \in Threads |-> NoLocal]
  /\ res = [t \in Threads |-> NoResult]
  /\ nextId = 0
  /\ ver = 0
  /\ startMark = [t \in Threads |-> 0]
  /\ resetMark = 0
  /\ putVer = [t \in Threads |-> 0]
  /\ builds = 0
  /\ acq = [t \in Threads |-> NoLocks]
  /\ rel = [t \in Threads |-> NoLocks]
  /\ roles = [n \in StoredNames |-> Nil]
  /\ cloudKeys = {}
  /\ grafanaKeys = {}
  /\ leases = {}
  /\ calls = <<>>
  /\ out = NoOut
  /\ nextUuid = 0
  /\ lastGet = Nil
  /\ mutMark = 0

\* Requests of the configuration write handler in the concurrent runs.
CacheRequests ==
  { [create |-> TRUE,
     data |-> [k \in {"organisation", "key", "url"} |->
                 CASE k = "organisation" -> "org1"
                   [] k = "key" -> "k1"
                   [] OTHER -> UrlApiSl]],
    [create |-> FALSE,
     data |-> [k \in {"key", "url"} |->
                 CASE k = "key" -> "k2" [] OTHER -> UrlRoot]],
    [create |-> TRUE,
     data |-> [k \in {"organisation", "key", "url"} |->
                 CASE k = "organisation" -> "org1"
                   [] k = "key" -> "k1"
                   [] OTHER -> UrlNoAbs]] }

\* -------------------------------------------------------- sync.RWMutex
\* RLock: granted at once unless a writer holds or awaits the lock; a reader
\* that arrives behind a writer is granted when that writer unlocks.
RLock(t) ==
  /\ IF lockW = NoThread
       THEN readers' = readers \cup {t} /\ rWait' = rWait
       ELSE rWait' = rWait \cup {t} /\ readers' = readers
  /\ lockW' = lockW

RUnlock(t) ==
  /\ readers' = readers \ {t}
  /\ UNCHANGED <<lockW, rWait>>

\* Lock, first half: take the writers' mutex; later readers queue behind it.
LockBegin(t) ==
  /\ lockW = NoThread
  /\ lockW' = t
  /\ UNCHANGED <<readers, rWait>>

\* Lock, second half: wait until the readers that were in have left.
LockGranted(t) == lockW = t /\ readers = {}

\* Unlock: admit the readers that queued, then free the writers' mutex.
Unlock(t) ==
  /\ lockW' = NoThread
  /\ readers' = rWait
  /\ rWait' = {}

Bump(f, t, k) == [f EXCEPT ![t][k] = @ + 1]

\* ------------------------------------------------------------ getClient
StartGet(t) ==
  /\ pc[t] = "idle"
  /\ nextId < MaxClients
  /\ pc' = [pc EXCEPT ![t] = "g_rlock"]
  /\ op' = [op EXCEPT ![t] = "get"]
  /\ startMark' = [startMark EXCEPT ![t] = resetMark]
  /\ UNCHANGED <<storedConfig, client, lockW, readers, rWait, lcfg, res,
                 nextId, ver, resetMark, putVer, builds, acq, rel>>
  /\ UNCHANGED lifeVars

\* b.lock.RLock()
GetRLock(t) ==
  /\ pc[t] = "g_rlock"
  /\ RLock(t)
  /\ pc' = [pc EXCEPT ![t] = IF lockW = NoThread THEN "g_check" ELSE "g_rwait"]
  /\ acq' = Bump(acq, t, "r")
  /\ UNCHANGED <<storedConfig, client, op, lcfg, res, nextId, ver,
                 startMark, resetMark, putVer, builds, rel>>
  /\ UNCHANGED lifeVars

GetRLockGranted(t) ==
  /\ pc[t] = "g_rwait"
  /\ t \in readers
  /\ pc' = [pc EXCEPT ![t] = "g_check"]
  /\ UNCHANGED <<storedConfig, client, lockW, readers, rWait, op, lcfg, res,
                 nextId, ver, startMark, resetMark, putVer, builds, acq, rel>>
  /\ UNCHANGED lifeVars

\* "if b.client != nil { return b.client, nil }"
GetCheck(t) ==
  /\ pc[t] = "g_check"
  /\ IF client # Nil
       THEN /\ res' = [res EXCEPT ![t] = [val |-> client, err |-> ""]]
            /\ pc' = [pc EXCEPT ![t] = "g_runlock"]
       ELSE /\ res' = res
            /\ pc' = [pc EXCEPT ![t] = "g_upgrade"]
  /\ UNCHANGED <<storedConfig, client, lockW, readers, rWait, op, lcfg,
                 nextId, ver, startMark, resetMark, putVer, builds, acq, rel>>
  /\ UNCHANGED lifeVars

\* Fast path: the deferred unlockFunc is b.lock.RUnlock.
GetDeferRUnlock(t) ==
  /\ pc[t] = "g_runlock"
  /\ RUnlock(t)
  /\ rel' = Bump(rel, t, "r")
  /\ pc' = [pc EXCEPT ![t] = "g_ret"]
  /\ UNCHANGED <<storedConfig, client, op, lcfg, res, nextId, ver,
                 startMark, resetMark, putVer, builds, acq>>
  /\ UNCHANGED lifeVars

\* A slow path that gives up the read lock and goes on without the write lock.
GetUpgradeNoLock(t) ==
  /\ pc[t] = "g_upgrade"
  /\ RUnlock(t)
  /\ rel' = Bump(rel, t, "r")
  /\ acq' = Bump(acq, t, "w")
  /\ pc' = [pc EXCEPT ![t] = "g_load"]
  /\ UNCHANGED <<storedConfig, client, op, lcfg, res, nextId, ver,
                 startMark, resetMark, putVer, builds>>
  /\ UNCHANGED lifeVars

\* Slow path: b.lock.RUnlock(), then b.lock.Lock() is next.
GetUpgrade(t) ==
  /\ pc[t] = "g_upgrade"
  /\ RUnlock(t)
  /\ rel' = Bump(rel, t, "r")
  /\ pc' = [pc EXCEPT ![t] = "g_lock"]
  /\ UNCHANGED <<storedConfig, client, op, lcfg, res, nextId, ver,
                 startMark, resetMark, putVer, builds, acq>>
  /\ UNCHANGED lifeVars

\* b.lock.Lock(); unlockFunc = b.lock.Unlock
GetLock(t) ==
  /\ pc[t] = "g_lock"
  /\ LockBegin(t)
  /\ pc' = [pc EXCEPT ![t] = "g_lockwait"]
  /\ UNCHANGED <<storedConfig, client, op, lcfg, res, nextId, ver,
                 startMark, resetMark, putVer, builds, acq, rel>>
  /\ UNCHANGED lifeVars

GetLockGranted(t) ==
  /\ pc[t] = "g_lockwait"
  /\ LockGranted(t)
  /\ pc' = [pc EXCEPT ![t] = "g_load"]
  /\ acq' = Bump(acq, t, "w")
  /\ UNCHANGED <<storedConfig, client, lockW, readers, rWait, op, lcfg, res,
                 nextId, ver, startMark, resetMark, putVer, builds, rel>>
  /\ UNCHANGED lifeVars

\* A config-load error that returns without running the deferred unlock.
GetLoadLeak(t) ==
  /\ pc[t] = "g_load"
  /\ \E ok \in BOOLEAN :
       IF ok
         THEN /\ lcfg' = [lcfg EXCEPT ![t] = [entry |-> storedConfig, ver |-> ver]]
              /\ res' = res
              /\ pc' = [pc EXCEPT ![t] = "g_new"]
         ELSE /\ lcfg' = lcfg
              /\ res' = [res EXCEPT ![t] = [val |-> Nil, err |-> "storage"]]
              /\ pc' = [pc EXCEPT ![t] = "g_ret"]
  /\ UNCHANGED <<storedConfig, client, lockW, readers, rWait, op,
                 nextId, ver, startMark, resetMark, putVer, builds, acq, rel>>
  /\ UNCHANGED lifeVars

\* "config, err := getConfig(ctx, s); if err != nil { return nil, err }"
GetLoad(t) ==
  /\ pc[t] = "g_load"
  /\ \E ok \in BOOLEAN :
       IF ok
         THEN /\ lcfg' = [lcfg EXCEPT ![t] = [entry |-> storedConfig, ver |-> ver]]
              /\ res' = res
              /\ pc' = [pc EXCEPT ![t] = "g_new"]
         ELSE /\ lcfg' = lcfg
              /\ res' = [res EXCEPT ![t] = [val |-> Nil, err |-> "storage"]]
              /\ pc' = [pc EXCEPT ![t] = "g_wunlock"]
  /\ UNCHANGED <<storedConfig, client, lockW, readers, rWait, op,
                 nextId, ver, startMark, resetMark, putVer, builds, acq, rel>>
  /\ UNCHANGED lifeVars

\* "b.client, err = grafanclient.New(...)": on an error the library returns
\* nil, which is what is stored in b.client.
GetNew(t) ==
  /\ pc[t] = "g_new"
  /\ \E ok \in BOOLEAN :
       IF ok
         THEN /\ client' = Some(NewClient(nextId, ConfigOrEmpty(lcfg[t].entry),
                                          lcfg[t].ver))
              /\ nextId' = nextId + 1
              /\ builds' = builds + 1
              /\ res' = [res EXCEPT ![t] = [val |-> client', err |-> ""]]
         ELSE /\ client' = Nil
              /\ nextId' = nextId
              /\ builds' = builds
              /\ res' = [res EXCEPT ![t] = [val |-> Nil, err |-> "client"]]
  /\ lcfg' = [lcfg EXCEPT ![t] = NoLocal]
  /\ pc' = [pc EXCEPT ![t] = "g_wunlock"]
  /\ UNCHANGED <<storedConfig, lockW, readers, rWait, op, ver,
                 startMark, resetMark, putVer, acq, rel>>
  /\ UNCHANGED lifeVars

\* Slow path: the deferred unlockFunc is b.lock.Unlock.
GetDeferUnlock(t) ==
  /\ pc[t] = "g_wunlock"
  /\ Unlock(t)
  /\ rel' = Bump(rel, t, "w")
  /\ pc' = [pc EXCEPT ![t] = "g_ret"]
  /\ UNCHANGED <<storedConfig, client, op, lcfg, res, nextId, ver,
                 startMark, resetMark, putVer, builds, acq>>
  /\ UNCHANGED lifeVars

\* getClient has returned res[t] to its caller.
GetReturn(t) ==
  /\ pc[t] = "g_ret"
  /\ pc' = [pc EXCEPT ![t] = "idle"]
  /\ op' = [op EXCEPT ![t] = "idle"]
  /\ res' = [res EXCEPT ![t] = NoResult]
  /\ startMark' = [startMark EXCEPT ![t] = 0]
  /\ acq' = [acq EXCEPT ![t] = NoLocks]
  /\ rel' = [rel EXCEPT ![t] = NoLocks]
  /\ UNCHANGED <<storedConfig, client, lockW, readers, rWait, lcfg,
                 nextId, ver, resetMark, putVer, builds>>
  /\ UNCHANGED lifeVars

\* ---------------------------------------------------------------- reset
\* b.lock.Lock()
ResetLock(t) ==
  /\ pc[t] = "r_lock"
  /\ LockBegin(t)
  /\ pc' = [pc EXCEPT ![t] = "r_lockwait"]
  /\ UNCHANGED <<storedConfig, client, op, lcfg, res, nextId, ver,
                 startMark, resetMark, putVer, builds, acq, rel>>
  /\ UNCHANGED lifeVars

ResetLockGranted(t) ==
  /\ pc[t] = "r_lockwait"
  /\ LockGranted(t)
  /\ pc' = [pc EXCEPT ![t] = "r_clear"]
  /\ UNCHANGED <<storedConfig, client, lockW, readers, rWait, op, lcfg, res,
                 nextId, ver, startMark, resetMark, putVer, builds, acq, rel>>
  /\ UNCHANGED lifeVars

\* A reset that leaves the cached client in place.
ResetClearKeep(t) ==
  /\ pc[t] = "r_clear"
  /\ pc' = [pc EXCEPT ![t] = "r_unlock"]
  /\ UNCHANGED <<storedConfig, client, lockW, readers, rWait, op, lcfg, res,
                 nextId, ver, startMark, resetMark, putVer, builds, acq, rel>>
  /\ UNCHANGED lifeVars

\* b.client = nil
ResetClear(t) ==
  /\ pc[t] = "r_clear"
  /\ client' = Nil
  /\ builds' = 0
  /\ pc' = [pc EXCEPT ![t] = "r_unlock"]
  /\ UNCHANGED <<storedConfig, lockW, readers, rWait, op, lcfg, res,
                 nextId, ver, startMark, resetMark, putVer, acq, rel>>
  /\ UNCHANGED lifeVars

\* The deferred b.lock.Unlock(); reset returns to the handler that called it.
ResetUnlock(t) ==
  /\ pc[t] = "r_unlock"
  /\ Unlock(t)
  /\ resetMark' = nextId
  /\ pc' = [pc EXCEPT ![t] = "m_ret"]
  /\ UNCHANGED <<storedConfig, client, op, lcfg, res, nextId, ver,
                 startMark, putVer, builds, acq, rel>>
  /\ UNCHANGED lifeVars

\* ------------------------------------------------- configuration handlers
StartConfigWrite(t) ==
  /\ pc[t] = "idle"
  /\ ver < MaxMut
  /\ pc' = [pc EXCEPT ![t] = "w_get"]
  /\ op' = [op EXCEPT ![t] = "write"]
  /\ UNCHANGED <<storedConfig, client, lockW, readers, rWait, lcfg, res,
                 nextId, ver, startMark, resetMark, putVer, builds, acq, rel>>
  /\ UNCHANGED lifeVars

\* pathConfigWrite: "config, err := getConfig(ctx, req.Storage)"
ConfigGet(t) ==
  /\ pc[t] = "w_get"
  /\ \E ok \in BOOLEAN :
       IF ok
         THEN /\ lcfg' = [lcfg EXCEPT ![t] = [entry |-> storedConfig, ver |-> ver]]
              /\ res' = res
              /\ pc' = [pc EXCEPT ![t] = "w_put"]
         ELSE /\ lcfg' = lcfg
              /\ res' = [res EXCEPT ![t] = [val |-> Nil, err |-> "storage"]]
              /\ pc' = [pc EXCEPT ![t] = "m_ret"]
  /\ UNCHANGED <<storedConfig, client, lockW, readers, rWait, op,
                 nextId, ver, startMark, resetMark, putVer, builds, acq, rel>>
  /\ UNCHANGED lifeVars

\* The step a thread takes after the handler's storage change succeeded.
AfterPutNoReset == "m_ret"

\* pathConfigWrite and pathConfigDelete call b.reset() next.
AfterPut == "r_lock"

\* pathConfigWrite: the field checks, then req.Storage.Put.
ConfigPut(t) ==
  /\ pc[t] = "w_put"
  /\ \E req \in CacheRequests, ok \in BOOLEAN :
       LET r == ConfigWriteResult(lcfg[t].entry, req.data, req.create)
       IN IF r.err # ""
            THEN /\ res' = [res EXCEPT ![t] = [val |-> Nil, err |-> r.err]]
                 /\ pc' = [pc EXCEPT ![t] = "m_ret"]
                 /\ UNCHANGED <<storedConfig, ver, putVer>>
          ELSE IF ~ok
            THEN /\ res' = [res EXCEPT ![t] = [val |-> Nil, err |-> "storage"]]
                 /\ pc' = [pc EXCEPT ![t] = "m_ret"]
                 /\ UNCHANGED <<storedConfig, ver, putVer>>
          ELSE /\ storedConfig' = Some(r.config)
               /\ ver' = ver + 1
               /\ putVer' = [putVer EXCEPT ![t] = ver + 1]
               /\ res' = res
               /\ pc' = [pc EXCEPT ![t] = AfterPut]
  /\ lcfg' = [lcfg EXCEPT ![t] = NoLocal]
  /\ UNCHANGED <<client, lockW, readers, rWait, op, nextId,
                 startMark, resetMark, builds, acq, rel>>
  /\ UNCHANGED lifeVars

StartConfigDelete(t) ==
  /\ pc[t] = "idle"
  /\ ver < MaxMut
  /\ pc' = [pc EXCEPT ![t] = "d_del"]
  /\ op' = [op EXCEPT ![t] = "delete"]
  /\ UNCHANGED <<storedConfig, client, lockW, readers, rWait, lcfg, res,
                 nextId, ver, startMark, resetMark, putVer, builds, acq, rel>>
  /\ UNCHANGED lifeVars

\* pathConfigDelete: req.Storage.Delete, and b.reset() when it succeeded.
ConfigDelete(t) ==
  /\ pc[t] = "d_del"
  /\ \E ok \in BOOLEAN :
       IF ok
         THEN /\ storedConfig' = Nil
              /\ ver' = ver + 1
              /\ putVer' = [putVer EXCEPT ![t] = ver + 1]
              /\ res' = res
              /\ pc' = [pc EXCEPT ![t] = AfterPut]
         ELSE /\ res' = [res EXCEPT ![t] = [val |-> Nil, err |-> "storage"]]
              /\ pc' = [pc EXCEPT ![t] = "m_ret"]
              /\ UNCHANGED <<storedConfig, ver, putVer>>
  /\ UNCHANGED <<client, lockW, readers, rWait, op, lcfg, nextId,
                 startMark, resetMark, builds, acq, rel>>
  /\ UNCHANGED lifeVars

\* The host's invalidation callback for key "config": b.reset().
StartInvalidate(t) ==
  /\ pc[t] = "idle"
  /\ pc' = [pc EXCEPT ![t] = "r_lock"]
  /\ op' = [op EXCEPT ![t] = "invalidate"]
  /\ UNCHANGED <<storedConfig, client, lockW, readers, rWait, lcfg, res,
                 nextId, ver, startMark, resetMark, putVer, builds, acq, rel>>
  /\ UNCHANGED lifeVars

\* The write, delete or invalidation has returned res[t] to the host.
MutReturn(t) ==
  /\ pc[t] = "m_ret"
  /\ pc' = [pc EXCEPT ![t] = "idle"]
  /\ op' = [op EXCEPT ![t] = "idle"]
  /\ res' = [res EXCEPT ![t] = NoResult]
  /\ putVer' = [putVer EXCEPT ![t] = 0]
  /\ UNCHANGED <<storedConfig, client, lockW, readers, rWait, lcfg,
                 nextId, ver, startMark, resetMark, builds, acq, rel>>
  /\ UNCHANGED lifeVars

\* ------------------------------------------------ concurrent specification
\* Steps that wait for the writers' mutex.
CacheAcquire(t) == GetLock(t) \/ ResetLock(t)

\* Every other step of a request in progress.
CacheStep(t) ==
  \/ GetRLock(t)
  \/ GetRLockGranted(t)
  \/ GetCheck(t)
  \/ GetDeferRUnlock(t)
  \/ GetUpgrade(t)
  \/ GetLockGranted(t)
  \/ GetLoad(t)
  \/ GetNew(t)
  \/ GetDeferUnlock(t)
  \/ GetReturn(t)
  \/ ResetLockGranted(t)
  \/ ResetClear(t)
  \/ ResetUnlock(t)
  \/ ConfigGet(t)
  \/ ConfigPut(t)
  \/ ConfigDelete(t)
  \/ MutReturn(t)

CacheStart(t) ==
  \/ StartGet(t)
  \/ StartConfigWrite(t)
  \/ StartConfigDelete(t)
  \/ StartInvalidate(t)

CacheNext == \E t \in Threads : CacheStart(t) \/ CacheAcquire(t) \/ CacheStep(t)

\* The host runs every request it accepted (weak fairness of its steps); a
\* goroutine blocked in Lock is not overtaken for ever, sync.Mutex hands the
\* mutex to a starving waiter (strong fairness of the acquisition).
CacheFairness ==
  \A t \in Threads : WF_vars(CacheStep(t)) /\ SF_vars(CacheAcquire(t))

SpecCache == Init /\ [][CacheNext]_vars /\ CacheFairness

\* ------------------------------------------------- claims on the cache
\* A successful write or delete of the configuration is about to return.
MutationSucceeded(t) ==
  /\ pc[t] = "m_ret"
  /\ op[t] \in {"write", "delete"}
  /\ res[t].err = ""

\* C2: when a successful config write or delete returns, no client built
\* from a configuration read before its storage change is still cached: the
\* cache is empty or holds a client built from that change or a later one.
C2_ClearedOnReturn ==
  \A t \in Threads :
    MutationSucceeded(t) => (client = Nil \/ Val(client).ver >= putVer[t])

\* C2 witness: a successful write returns after a client had been built, and
\* the cache is empty.
C2_Witness ==
  \E t \in Threads :
    /\ MutationSucceeded(t)
    /\ op[t] = "write"
    /\ nextId > 0
    /\ client = Nil

\* C3 as stated: between two invalidations of the cache the client is
\* constructed at most once, so that concurrent Gets on an empty cache share
\* one instance.
C3_ConstructedOnce == builds <= 1

\* getClient holds the write lock: it loads the config and builds the client.
Constructing(t) == pc[t] \in {"g_load", "g_new", "g_wunlock"}

\* reset holds the write lock.
Invalidating(t) == pc[t] \in {"r_clear", "r_unlock"}

\* getClient holds the read lock around its read of b.client.
ReadingCache(t) == pc[t] \in {"g_check", "g_runlock", "g_upgrade"}

\* C4: construction and invalidation exclude each other, themselves and
\* every fast-path reader of b.client.
C4_MutualExclusion ==
  \A t, u \in Threads :
    (t # u /\ (Constructing(t) \/ Invalidating(t)))
      => ~(Constructing(u) \/ Invalidating(u) \/ ReadingCache(u))

\* C4 witness: one thread constructs while another is blocked in RLock.
C4_Witness ==
  \E t, u \in Threads : Constructing(t) /\ pc[t] = "g_new" /\ pc[u] = "g_rwait"

\* C5: a Get that began after a reset completed returns no client that was
\* constructed before that reset.
C5_FreshAfterReset ==
  \A t \in Threads :
    (pc[t] = "g_ret" /\ res[t].val # Nil)
      => Val(res[t].val).id >= startMark[t]

\* C5 witness: a Get that began after a reset which followed a construction
\* returns a client.
C5_Witness ==
  \E t \in Threads :
    /\ pc[t] = "g_ret"
    /\ res[t].val # Nil
    /\ startMark[t] > 0

NoMutationInProgress == \A t \in Threads : op[t] \notin {"write", "delete"}

\* The cached client was built from the configuration now in storage (an
\* absent configuration counts as the all-empty one, as in getClient).
Coherent ==
  \/ client = Nil
  \/ /\ Val(client).url = BaseUrl(ConfigOrEmpty(storedConfig).URL)
     /\ Val(client).key = ConfigOrEmpty(storedConfig).Key

\* C6: whenever no config write or delete is in progress, the cached client
\* is absent or was built from the stored configuration.
C6_CacheCoherence == NoMutationInProgress => Coherent

\* C6 witness: after two changes of the stored configuration, with no write
\* in progress, a client built from the stored configuration is cached.
C6_Witness ==
  /\ NoMutationInProgress
  /\ client # Nil
  /\ storedConfig # Nil
  /\ ver >= 2
  /\ nextId >= 2

\* A Get has returned: it holds no side of the lock, and released what it took.
ReleasedOnReturn(t) ==
  pc[t] = "g_ret" =>
    /\ t \notin readers \cup rWait
    /\ lockW # t
    /\ acq[t].r = 1 /\ rel[t].r = 1
    /\ acq[t].w <= 1 /\ rel[t].w = acq[t].w

\* C7: every request on the cache returns, and a Get that returns (on any
\* path) holds neither lock and has released each lock it took exactly once.
C7_ReturnsUnlocked ==
  /\ \A t \in Threads : (pc[t] # "idle") ~> (pc[t] = "idle")
  /\ [](\A t \in Threads : ReleasedOnReturn(t))

\* C7 witness: a Get returns the config-load error, having taken and
\* released the write lock.
C7_Witness ==
  \E t \in Threads :
    /\ pc[t] = "g_ret"
    /\ res[t].err = "storage"
    /\ rel[t].w = 1

\* ==================================================== sequential handlers
\* Credentials that may be issued in one behaviour.
MaxIssues == 1
\* The same where two credentials are compared.
MaxIssuesMany == 2
\* Client instances the handlers run one after another may construct.
MaxBuilds == 2
\* Successful configuration writes and deletes among those handlers.
MaxWrites == 2
\* The id the upstream gives the first instance key it creates.
FirstKeyId == 10

\* ----------------------------------------------------------- conversions
Digits == <<"0", "1", "2", "3", "4", "5", "6", "7", "8", "9">>

IsDigit(c) == \E i \in 1..Len(Digits) : Digits[i] = c

DigitVal(c) == (CHOOSE i \in 1..Len(Digits) : Digits[i] = c) - 1

RECURSIVE FormatUint(_)
FormatUint(n) ==
  IF n < 10 THEN <<Digits[n + 1]>>
  ELSE FormatUint(n \div 10) \o <<Digits[(n % 10) + 1]>>

\* strconv.FormatInt(n, 10)
FormatInt(n) == IF n < 0 THEN <<"-">> \o FormatUint(0 - n) ELSE FormatUint(n)

RECURSIVE ParseUint(_, _)
ParseUint(s, acc) ==
  IF s = <<>> THEN acc ELSE ParseUint(Tail(s), 10 * acc + DigitVal(Head(s)))

\* A parse that reads the first digit only.
ParseIntFirstDigit(s) ==
  IF s # <<>> /\ IsDigit(s[1]) THEN DigitVal(s[1]) ELSE 0

\* "id, _ := strconv.ParseInt(s, 10, 64)": 0 when s is no decimal number.
ParseInt(s) ==
  LET signed == s # <<>> /\ s[1] \in {"-", "+"}
      digits == IF signed THEN Tail(s) ELSE s
  IN IF digits = <<>> \/ \E i \in 1..Len(digits) : ~IsDigit(digits[i])
       THEN 0
     ELSE IF signed /\ s[1] = "-" THEN 0 - ParseUint(digits, 0)
     ELSE ParseUint(digits, 0)

\* uuid.New().String(): a value never drawn before.
Uuid(n) == <<"u">> \o FormatUint(n)

\* The secret the upstream returns with the n-th key it creates.
Token(n) == <<"s", "e", "c">> \o FormatUint(n)

\* A key name without the uuid.
TokenNameNoSuffix(roleName, suffix) == roleName

\* fmt.Sprintf("%s_%s", roleName, suffix)
TokenName(roleName, suffix) == roleName \o <<"_">> \o suffix

\* ------------------------------------------------------------------ roles
CloudAPIType == "Cloud"
GrafanaAPIType == "Grafana"
grafanaCloudKeyType == "GrafanaCloudKey"

grafanaCloudValidRoles ==
  {"Viewer", "Admin", "Editor", "MetricsPublisher", "PluginPublisher"}

grafanaCloudValidAPITypes == {CloudAPIType, GrafanaAPIType}

\* &grafanaCloudRoleEntry{}; durations are whole seconds.
EmptyRole ==
  [APIType |-> "", StackSlug |-> "", GrafanaCloudRole |-> "",
   TTL |-> 0, MaxTTL |-> 0]

\* b.getRole: the entry stored under roles/<name>, nil when there is none.
GetRole(name) == IF name \in DOMAIN roles THEN roles[name] ELSE Nil

\* The api_type step of pathRolesWrite: the field is set on every write.
RoleAPIType(r, data) ==
  IF GetOk(data, "api_type")
    THEN [r EXCEPT !.APIType = data["api_type"]]
    ELSE [r EXCEPT !.APIType = CloudAPIType]

\* A stack_slug check that only asks for the field to be there.
RoleSlugErrorMissingOnly(r, data) ==
  r.APIType = GrafanaAPIType /\ ~GetOk(data, "stack_slug")

\* The stack_slug check of pathRolesWrite, on the entry after the stack_slug
\* step.
RoleSlugError(r, data) ==
  r.APIType = GrafanaAPIType /\ (~GetOk(data, "stack_slug") \/ r.StackSlug = "")

\* A ttl check with the comparison turned round.
RoleTTLErrorInverted(r) == r.MaxTTL # 0 /\ r.TTL < r.MaxTTL

\* The ttl check of pathRolesWrite, on the entry after every step.
RoleTTLError(r) == r.MaxTTL # 0 /\ r.TTL > r.MaxTTL

\* pathRolesWrite up to setRole: the error ("" when none) and the entry that
\* is stored.
RoleWriteResult(stored, data, createOperation) ==
  LET nameOk == TRUE   \* "name, ok := d.GetOk("name")" held, or it returned
      r0 == IF stored = Nil THEN EmptyRole ELSE Val(stored)
      r1 == RoleAPIType(r0, data)
      r2 == SetIfOk(r1, data, "gc_role", "GrafanaCloudRole")
      r3 == SetIfOk(r2, data, "stack_slug", "StackSlug")
      r4 == IF GetOk(data, "ttl") THEN [r3 EXCEPT !.TTL = data["ttl"]]
            ELSE IF createOperation THEN [r3 EXCEPT !.TTL = 0]
            ELSE r3
      r5 == IF GetOk(data, "max_ttl") THEN [r4 EXCEPT !.MaxTTL = data["max_ttl"]]
            ELSE IF createOperation THEN [r4 EXCEPT !.MaxTTL = 0]
            ELSE r4
      err ==
        IF GetOk(data, "api_type") /\ r1.APIType \notin grafanaCloudValidAPITypes
          THEN "provided api_type is not valid"
        ELSE IF GetOk(data, "gc_role")
                /\ r2.GrafanaCloudRole \notin grafanaCloudValidRoles
          THEN "provided gc_role is not valid"
        ELSE IF RoleSlugError(r3, data)
          THEN "need to specify a stack_slug for Grafana API keys."
        ELSE IF ~nameOk /\ createOperation
          THEN "missing gc_role value"
        ELSE IF RoleTTLError(r5)
          THEN "ttl cannot be greater than max_ttl"
        ELSE ""
  IN [err |-> err, role |-> r5]

\* Requests of the role write handler.
RoleRequests ==
  { [k \in {"gc_role", "ttl", "max_ttl"} |->
       CASE k = "gc_role" -> "Viewer" [] k = "ttl" -> 120 [] OTHER -> 300],
    [k \in {"api_type", "stack_slug", "gc_role"} |->
       CASE k = "api_type" -> GrafanaAPIType
         [] k = "stack_slug" -> "stack1"
         [] OTHER -> "Viewer"],
    [k \in {"gc_role", "ttl", "max_ttl"} |->
       CASE k = "gc_role" -> "Editor" [] k = "ttl" -> 400 [] OTHER -> 300] }

\* Requests of the role write handler where the role store is followed alone:
\* complete roles of both kinds, writes of one field only, and values outside
\* each enumeration.
RoleStoreRequests ==
  RoleRequests \cup
  { ("ttl" :> 400),
    ("max_ttl" :> 100),
    ("stack_slug" :> "stack2"),
    ("gc_role" :> "Nobody"),
    ("api_type" :> "Other" @@ "gc_role" :> "Viewer"),
    ("api_type" :> GrafanaAPIType @@ "gc_role" :> "Viewer"),
    ("api_type" :> GrafanaAPIType @@ "stack_slug" :> "" @@ "gc_role" :> "Viewer"),
    ("api_type" :> GrafanaAPIType @@ "stack_slug" :> "stack1"
       @@ "gc_role" :> "MetricsPublisher") }

\* The request that configures the engine first.
FirstConfig ==
  [create |-> TRUE,
   data |-> [k \in {"organisation", "key", "url"} |->
               CASE k = "organisation" -> "org1"
                 [] k = "key" -> "k1"
                 [] OTHER -> UrlApiSl]]

\* Requests of the configuration write handler.
ConfigRequests ==
  { FirstConfig,
    [create |-> TRUE,
     data |-> [k \in {"organisation", "key", "url"} |->
                 CASE k = "organisation" -> "org1"
                   [] k = "key" -> "k1"
                   [] OTHER -> UrlNoAbs]],
    [create |-> FALSE,
     data |-> [k \in {"organisation"} |-> "org2"]] }

\* Requests of the configuration write handler where the configuration store
\* is followed alone: required fields empty or left out, updates of one field,
\* and telemetry fields.
ConfigStoreRequests ==
  ConfigRequests \cup
  { [create |-> FALSE, data |-> ("organisation" :> "")],
    [create |-> TRUE,
     data |-> ("organisation" :> "org1" @@ "key" :> "" @@ "url" :> UrlApiSl)],
    [create |-> TRUE, data |-> ("key" :> "k2" @@ "url" :> UrlRoot)],
    [create |-> TRUE, data |-> ("organisation" :> "org1" @@ "key" :> "k1")],
    [create |-> TRUE,
     data |-> ("organisation" :> "org1" @@ "key" :> "k1" @@ "url" :> UrlUpper)],
    [create |-> TRUE,
     data |-> ("organisation" :> "org1" @@ "key" :> "k1" @@ "url" :> UrlXapi)],
    [create |-> TRUE,
     data |-> ("organisation" :> "org1" @@ "key" :> "k1" @@ "url" :> UrlApi)],
    [create |-> FALSE, data |-> ("prometheus_url" :> UrlNoAbs)],
    [create |-> FALSE,
     data |-> ("prometheus_user" :> "u1" @@ "loki_url" :> UrlProm)] }

\* ------------------------------------------------------ getClient, whole
\* The points of a handler at which the storage or the upstream may fail; one
\* run of a handler meets at most one failure, or the failure of the upstream
\* operation together with the failure of the cleanup that follows it.
\* "cancel" is no failure: the request's context is cancelled once the handler
\* has read the storage, before it calls the upstream.
Failures(points) ==
  {{}} \cup {{p} : p \in points}
       \cup {F \in {{"op", "cleanup"}} : F \subseteq points}

\* The points getClient passes: none on the fast path.
GetPoints == IF client = Nil THEN {"load", "new"} ELSE {}

\* The points a handler passes that obtains the client, reads the
\* configuration and calls the upstream for a key of the given type.
KeyPoints(apiType) ==
  GetPoints \cup {"config", "op", "cancel"}
            \cup (IF apiType = CloudAPIType THEN {} ELSE {"acquire", "cleanup"})

\* The points of Issue: the role is read first, and all ends there when there
\* is none.
IssuePoints(name) ==
  LET roleEntry == GetRole(ToLower(name))
  IN {"role"} \cup (IF roleEntry = Nil THEN {} ELSE KeyPoints(Val(roleEntry).APIType))

\* The points of Revoke: a secret without a type is a Cloud secret.
RevokePoints(secret) ==
  KeyPoints(IF "type" \in DOMAIN secret.internal
              THEN secret.internal["type"] ELSE CloudAPIType)

\* getClient run to its return with nothing interleaved: the value and error
\* returned, b.client afterwards, and the next instance identity.  F is the
\* set of failing points ("load": getConfig, "new": grafanclient.New).
GetClientSeq(F) ==
  IF client # Nil
    THEN [val |-> client, err |-> "", cache |-> client, nextId |-> nextId]
  ELSE IF "load" \in F
    THEN [val |-> Nil, err |-> "storage", cache |-> client, nextId |-> nextId]
  ELSE IF "new" \in F
    THEN [val |-> Nil, err |-> "client", cache |-> Nil, nextId |-> nextId]
  ELSE LET c == Some(NewClient(nextId, ConfigOrEmpty(storedConfig), ver))
       IN [val |-> c, err |-> "", cache |-> c, nextId |-> nextId + 1]

\* A reset that keeps the cached client.
ClientKept(c) == c

\* b.reset(): b.client afterwards.
ClientAfterReset(c) == Nil

\* History of the instances getClient returned since the last config change.
RecordGet(val) ==
  lastGet' = IF val # Nil THEN Some(Val(val).id) ELSE lastGet

\* ------------------------------------------------------- upstream calls
tempKeyPrefix == <<"v", "a", "u", "l", "t", "-", "t", "e", "m", "p">>
tempKeyTTL == 30

\* One call to the Grafana Cloud API, with the arguments it was given.
Call(fn, org, stack, name, id, ttl, ok) ==
  [fn |-> fn, org |-> org, stack |-> stack, name |-> name, id |-> id,
   ttl |-> ttl, ok |-> ok]

\* What a handler leaves behind when it stops before it did anything.
Same ==
  [err |-> "", key |-> Nil, calls |-> <<>>, cloud |-> cloudKeys,
   graf |-> grafanaKeys, cache |-> client, nextId |-> nextId, got |-> Nil,
   created |-> FALSE, org |-> "", keyId |-> 0]

\* The same without the user kept for backward compatibility.
TelemetryNoUser(config) ==
  [User |-> "",
   PrometheusUser |-> config.PrometheusUser, PrometheusURL |-> config.PrometheusURL,
   LokiUser |-> config.LokiUser, LokiURL |-> config.LokiURL,
   TempoUser |-> config.TempoUser, TempoURL |-> config.TempoURL,
   AlertmanagerUser |-> config.AlertmanagerUser,
   AlertmanagerURL |-> config.AlertmanagerURL,
   GraphiteUser |-> config.GraphiteUser, GraphiteURL |-> config.GraphiteURL]

\* The telemetry users and URLs copied from the configuration into a key.
Telemetry(config) ==
  [User |-> config.User,
   PrometheusUser |-> config.PrometheusUser, PrometheusURL |-> config.PrometheusURL,
   LokiUser |-> config.LokiUser, LokiURL |-> config.LokiURL,
   TempoUser |-> config.TempoUser, TempoURL |-> config.TempoURL,
   AlertmanagerUser |-> config.AlertmanagerUser,
   AlertmanagerURL |-> config.AlertmanagerURL,
   GraphiteUser |-> config.GraphiteUser, GraphiteURL |-> config.GraphiteURL]

\* createCloudKey that tries a failed CreateCloudAPIKey once more.
createCloudKeyRetry(base, organisation, roleName, config, grafanaCloudRole, F) ==
  LET tokenName == TokenName(roleName, Uuid(nextUuid))
      create(ok) == Call("CreateCloudAPIKey", organisation, "", tokenName, 0, 0, ok)
  IN IF "op" \in F
       THEN [base EXCEPT !.err = "error creating Grafana Cloud key",
                         !.calls = <<create(FALSE), create(FALSE)>>]
     ELSE [base EXCEPT
             !.key = Some([ID |-> <<>>, Name |-> tokenName,
                           Token |-> Token(nextUuid), Type |-> CloudAPIType,
                           StackSlug |-> ""] @@ Telemetry(config)),
             !.calls = <<create(TRUE)>>,
             !.cloud = cloudKeys \cup {[org |-> organisation, name |-> tokenName]},
             !.created = TRUE,
             !.org = organisation]

\* createCloudKey: CreateCloudAPIKey(organisation, {Name, Role}).
createCloudKey(base, organisation, roleName, config, grafanaCloudRole, F) ==
  LET tokenName == TokenName(roleName, Uuid(nextUuid))
      create(ok) == Call("CreateCloudAPIKey", organisation, "", tokenName, 0, 0, ok)
  IN IF "op" \in F
       THEN [base EXCEPT !.err = "error creating Grafana Cloud key",
                         !.calls = <<create(FALSE)>>]
     ELSE [base EXCEPT
             !.key = Some([ID |-> <<>>, Name |-> tokenName,
                           Token |-> Token(nextUuid), Type |-> CloudAPIType,
                           StackSlug |-> ""] @@ Telemetry(config)),
             !.calls = <<create(TRUE)>>,
             !.cloud = cloudKeys \cup {[org |-> organisation, name |-> tokenName]},
             !.created = TRUE,
             !.org = organisation]

\* A key record made of the temporary key of the stack client.
GrafanaKeyOfTemp(keyId, tokenName, token, stackSlug, config) ==
  [ID |-> FormatInt(0), Name |-> tempKeyPrefix, Token |-> tempKeyPrefix,
   Type |-> GrafanaAPIType, StackSlug |-> stackSlug] @@ Telemetry(config)

\* createGrafanaKey: the &GrafanaCloudKey{} made of the answer of CreateAPIKey.
GrafanaKey(keyId, tokenName, token, stackSlug, config) ==
  [ID |-> FormatInt(keyId), Name |-> tokenName, Token |-> token,
   Type |-> GrafanaAPIType, StackSlug |-> stackSlug] @@ Telemetry(config)

\* createGrafanaKey where a failing cleanup becomes the error of the call.
createGrafanaKeyCleanupError(base, stackSlug, roleName, secondsToLive, config, grafanaCloudRole, F) ==
  LET tokenName == TokenName(roleName, Uuid(nextUuid))
      keyId == FirstKeyId + nextUuid
      acquire(ok) == Call("CreateTemporaryStackGrafanaClient", "", stackSlug,
                          tempKeyPrefix, 0, tempKeyTTL, ok)
      create(ok) == Call("CreateAPIKey", "", stackSlug, tokenName, 0,
                         secondsToLive, ok)
      cleanup == Call("cleanup", "", stackSlug, tempKeyPrefix, 0, 0,
                      "cleanup" \notin F)
      made == [base EXCEPT
                 !.calls = <<acquire(TRUE), create(TRUE), cleanup>>,
                 !.graf = grafanaKeys \cup {[stack |-> stackSlug, id |-> keyId]},
                 !.created = TRUE,
                 !.keyId = keyId]
  IN IF "acquire" \in F
       THEN [base EXCEPT !.err = "error creating temporary Grafana API key",
                         !.calls = <<acquire(FALSE)>>]
     ELSE IF "op" \in F
       THEN [base EXCEPT !.err = "error creating Grafana API key",
                         !.calls = <<acquire(TRUE), create(FALSE), cleanup>>]
     ELSE IF "cleanup" \in F
       THEN [made EXCEPT !.err = "error deleting temporary Grafana API key"]
     ELSE IF config = Nil
       THEN [made EXCEPT !.err = "panic"]
     ELSE [made EXCEPT
             !.key = Some(GrafanaKey(keyId, tokenName, Token(nextUuid), stackSlug,
                                     Val(config)))]

\* createGrafanaKey: the temporary stack client, CreateAPIKey through it, and
\* the deferred cleanup.  config is the entry getConfig returned, maybe nil:
\* its fields are read only after the key was created.
createGrafanaKey(base, stackSlug, roleName, secondsToLive, config, grafanaCloudRole, F) ==
  LET tokenName == TokenName(roleName, Uuid(nextUuid))
      keyId == FirstKeyId + nextUuid
      acquire(ok) == Call("CreateTemporaryStackGrafanaClient", "", stackSlug,
                          tempKeyPrefix, 0, tempKeyTTL, ok)
      create(ok) == Call("CreateAPIKey", "", stackSlug, tokenName, 0,
                         secondsToLive, ok)
      cleanup == Call("cleanup", "", stackSlug, tempKeyPrefix, 0, 0,
                      "cleanup" \notin F)
      made == [base EXCEPT
                 !.calls = <<acquire(TRUE), create(TRUE), cleanup>>,
                 !.graf = grafanaKeys \cup {[stack |-> stackSlug, id |-> keyId]},
                 !.created = TRUE,
                 !.keyId = keyId]
  IN IF "acquire" \in F
       THEN [base EXCEPT !.err = "error creating temporary Grafana API key",
                         !.calls = <<acquire(FALSE)>>]
     ELSE IF "op" \in F
       THEN [base EXCEPT !.err = "error creating Grafana API key",
                         !.calls = <<acquire(TRUE), create(FALSE), cleanup>>]
     ELSE IF config = Nil
       THEN [made EXCEPT !.err = "panic"]
     ELSE [made EXCEPT
             !.key = Some(GrafanaKey(keyId, tokenName, Token(nextUuid), stackSlug,
                                     Val(config)))]

\* b.createKey that hands the maximum lifetime of the role to createGrafanaKey.
createKeyMaxTTL(roleName, roleEntry, F) ==
  LET g == GetClientSeq(F)
      base == [Same EXCEPT !.cache = g.cache, !.nextId = g.nextId, !.got = g.val]
      made ==
        IF roleEntry.APIType = CloudAPIType
          THEN IF storedConfig = Nil
                 THEN [base EXCEPT !.err = "panic"]
               ELSE createCloudKey(base, Val(storedConfig).Organisation, roleName,
                                   Val(storedConfig), roleEntry.GrafanaCloudRole, F)
          ELSE createGrafanaKey(base, roleEntry.StackSlug, roleName, roleEntry.MaxTTL,
                                storedConfig, roleEntry.GrafanaCloudRole, F)
  IN IF g.err # "" THEN [base EXCEPT !.err = g.err]
     ELSE IF "config" \in F
       THEN [base EXCEPT !.err = "error reading secrets engine configuration"]
     ELSE IF made.err \notin {"", "panic"}
       THEN [made EXCEPT !.err = "error creating Grafana Cloud token"]
     ELSE made

\* b.createKey
createKey(roleName, roleEntry, F) ==
  LET g == GetClientSeq(F)
      base == [Same EXCEPT !.cache = g.cache, !.nextId = g.nextId, !.got = g.val]
      made ==
        IF roleEntry.APIType = CloudAPIType
          THEN IF storedConfig = Nil
                 THEN [base EXCEPT !.err = "panic"]
               ELSE createCloudKey(base, Val(storedConfig).Organisation, roleName,
                                   Val(storedConfig), roleEntry.GrafanaCloudRole, F)
          ELSE createGrafanaKey(base, roleEntry.StackSlug, roleName, roleEntry.TTL,
                                storedConfig, roleEntry.GrafanaCloudRole, F)
  IN IF g.err # "" THEN [base EXCEPT !.err = g.err]
     ELSE IF "config" \in F
       THEN [base EXCEPT !.err = "error reading secrets engine configuration"]
     ELSE IF made.err \notin {"", "panic"}
       THEN [made EXCEPT !.err = "error creating Grafana Cloud token"]
     ELSE made

UserFields ==
  [user |-> "User", prometheus_user |-> "PrometheusUser", loki_user |-> "LokiUser",
   tempo_user |-> "TempoUser", alertmanager_user |-> "AlertmanagerUser",
   graphite_user |-> "GraphiteUser"]

UrlFields ==
  [prometheus_url |-> "PrometheusURL", loki_url |-> "LokiURL",
   tempo_url |-> "TempoURL", alertmanager_url |-> "AlertmanagerURL",
   graphite_url |-> "GraphiteURL"]

\* createUserCreds: the response data.
ResponseData(key) ==
  LET users == {k \in DOMAIN UserFields : key[UserFields[k]] # ""}
      urls == {k \in DOMAIN UrlFields : key[UrlFields[k]] # <<>>}
  IN [k \in {"type", "token"} \cup users \cup urls |->
        IF k = "type" THEN key.Type
        ELSE IF k = "token" THEN key.Token
        ELSE IF k \in users THEN key[UserFields[k]]
        ELSE key[UrlFields[k]]]

\* Internal data that keeps the token where the id belongs.
InternalDataWithToken(key) ==
  LET slug == IF key.StackSlug # "" THEN {"stack_slug"} ELSE {}
  IN [k \in {"id", "name", "type", "secret_type"} \cup slug |->
        IF k = "id" THEN key.Token
        ELSE IF k = "name" THEN key.Name
        ELSE IF k = "type" THEN key.Type
        ELSE IF k = "secret_type" THEN grafanaCloudKeyType
        ELSE key.StackSlug]

\* Internal data with a stack_slug entry whatever the key.
InternalDataAlwaysSlug(key) ==
  [k \in {"id", "name", "type", "secret_type", "stack_slug"} |->
     IF k = "id" THEN key.ID
     ELSE IF k = "name" THEN key.Name
     ELSE IF k = "type" THEN key.Type
     ELSE IF k = "secret_type" THEN grafanaCloudKeyType
     ELSE key.StackSlug]

\* createUserCreds: the internal data, with the secret_type the framework's
\* Secret.Response adds.
InternalData(key) ==
  LET slug == IF key.StackSlug # "" THEN {"stack_slug"} ELSE {}
  IN [k \in {"id", "name", "type", "secret_type"} \cup slug |->
        IF k = "id" THEN key.ID
        ELSE IF k = "name" THEN key.Name
        ELSE IF k = "type" THEN key.Type
        ELSE IF k = "secret_type" THEN grafanaCloudKeyType
        ELSE key.StackSlug]

\* "if role.TTL > 0 { resp.Secret.TTL = role.TTL }": 0 keeps what was there.
Override(current, roleValue) == IF roleValue > 0 THEN roleValue ELSE current

\* An issue that answers a missing role with an empty response.
IssueResultSilent(name, F) ==
  LET roleName == ToLower(name)
      roleEntry == GetRole(roleName)
  IN IF roleName = <<>> \/ "role" \in F
       THEN [Same EXCEPT !.err = "error retrieving role"]
     ELSE IF roleEntry = Nil
       THEN Same
     ELSE createKey(roleName, Val(roleEntry), F)

\* pathCredentialsRead: "name" is a lower-case string field.
IssueResult(name, F) ==
  LET roleName == ToLower(name)
      roleEntry == GetRole(roleName)
  IN IF roleName = <<>> \/ "role" \in F
       THEN [Same EXCEPT !.err = "error retrieving role"]
     ELSE IF roleEntry = Nil
       THEN [Same EXCEPT !.err = "error retrieving role: role is nil"]
     ELSE createKey(roleName, Val(roleEntry), F)

\* ---------------------------------------------------- handlers, whole
\* getClient may construct only while instance identities are left.
CanGet == client # Nil \/ nextId < MaxBuilds

Returned(name, err, resp, lease) ==
  [op |-> name, err |-> err, resp |-> resp, lease |-> lease, cancelled |-> FALSE,
   req |-> Nil]

\* The same with the request kept, where kept holds.
ReturnedReq(name, err, resp, lease, kept, request) ==
  [Returned(name, err, resp, lease) EXCEPT
     !.req = IF kept THEN Some(request) ELSE Nil]

\* The request of a handler that takes a name only.
Asked(kept, name) == IF kept THEN Some([name |-> name]) ELSE Nil

\* The same for a handler whose request carried a context that was cancelled
\* while it ran: no handler reads ctx.Done() or ctx.Err().
ReturnedCtx(name, err, resp, lease, F) ==
  [Returned(name, err, resp, lease) EXCEPT !.cancelled = "cancel" \in F]

\* A caller of getClient that does nothing else.
SeqGet ==
  \E F \in Failures(GetPoints) :
    LET g == GetClientSeq(F)
    IN /\ CanGet
       /\ client' = g.cache
       /\ nextId' = g.nextId
       /\ RecordGet(g.val)
       /\ calls' = <<>>
       /\ out' = Returned("get", g.err, Nil, Nil)
       /\ UNCHANGED <<storedConfig, ver, roles, cloudKeys, grafanaKeys, leases,
                      nextUuid, mutMark, threadVars>>

\* A successful configuration change starts a new period of the cache.
NewPeriod ==
  /\ ver' = ver + 1
  /\ lastGet' = Nil
  /\ mutMark' = nextId

\* A write that puts the configuration before it checks the telemetry URLs.
StoredAfterWriteEarly(err, config) ==
  IF err \in {"", "invalid prometheus_url in configuration",
              "invalid loki_url in configuration"}
    THEN Some(config) ELSE storedConfig

\* The stored configuration after pathConfigWrite: req.Storage.Put is reached
\* only when no step returned before it.
StoredAfterWrite(err, config) ==
  IF err = "" THEN Some(config) ELSE storedConfig

\* pathConfigWrite, reset included, for the given requests while fewer than
\* max changes of the stored configuration were made.
SeqConfigWriteOf(requests, max, kept) ==
  \E req \in requests, F \in Failures({"config", "put"}) :
    LET r == ConfigWriteResult(storedConfig, req.data, req.create)
        err == IF "config" \in F THEN "storage"
               ELSE IF r.err # "" THEN r.err
               ELSE IF "put" \in F THEN "storage"
               ELSE ""
    IN /\ ver < max
       /\ calls' = <<>>
       /\ out' = ReturnedReq("config-write", err, Nil, Nil, kept, req)
       /\ storedConfig' = StoredAfterWrite(err, r.config)
       /\ IF err = ""
            THEN /\ client' = ClientAfterReset(client)
                 /\ NewPeriod
            ELSE UNCHANGED <<client, ver, lastGet, mutMark>>
       /\ UNCHANGED <<nextId, roles, cloudKeys, grafanaKeys, leases, nextUuid,
                      threadVars>>

SeqConfigWrite == SeqConfigWriteOf(ConfigRequests, MaxWrites, FALSE)

\* pathConfigDelete, reset included.
SeqConfigDelete ==
  \E F \in Failures({"put"}) :
    LET err == IF "put" \in F THEN "storage" ELSE ""
    IN /\ ver < MaxWrites
       /\ calls' = <<>>
       /\ out' = Returned("config-delete", err, Nil, Nil)
       /\ IF err = ""
            THEN /\ storedConfig' = Nil
                 /\ client' = ClientAfterReset(client)
                 /\ NewPeriod
            ELSE UNCHANGED <<storedConfig, client, ver, lastGet, mutMark>>
       /\ UNCHANGED <<nextId, roles, cloudKeys, grafanaKeys, leases, nextUuid,
                      threadVars>>

\* A role write that stores the entry before it looks at the error.
RolesAfterWriteAlways(name, err, role) == [roles EXCEPT ![name] = Some(role)]

\* The role entries after pathRolesWrite: setRole is reached only when no
\* step returned before it, and puts the one entry.
RolesAfterWrite(name, err, role) ==
  IF err = "" THEN [roles EXCEPT ![name] = Some(role)] ELSE roles

\* The request fields of the configuration and the fields they are stored in.
ConfigFieldOf ==
  [organisation |-> "Organisation", key |-> "Key", url |-> "URL",
   user |-> "User", prometheus_user |-> "PrometheusUser",
   prometheus_url |-> "PrometheusURL", loki_user |-> "LokiUser",
   loki_url |-> "LokiURL", tempo_user |-> "TempoUser", tempo_url |-> "TempoURL",
   alertmanager_user |-> "AlertmanagerUser",
   alertmanager_url |-> "AlertmanagerURL", graphite_user |-> "GraphiteUser",
   graphite_url |-> "GraphiteURL"]

\* The response data of pathConfigRead for a stored configuration.
ConfigReadData(config) == [k \in ConfigFields |-> config[ConfigFieldOf[k]]]

\* pathConfigRead: every field of the stored configuration; it reads the
\* fields of the pointer getConfig returned, nil when nothing is stored.
ConfigRead ==
  \E F \in Failures({"config"}) :
    LET err == IF "config" \in F THEN "storage"
               ELSE IF storedConfig = Nil THEN "panic"
               ELSE ""
        resp == IF err # "" THEN Nil
                ELSE Some(ConfigReadData(Val(storedConfig)))
    IN /\ calls' = <<>>
       /\ out' = Returned("config-read", err, resp, Nil)
       /\ UNCHANGED <<storedConfig, client, nextId, ver, roles, cloudKeys,
                      grafanaKeys, leases, nextUuid, lastGet, mutMark,
                      threadVars>>

\* pathRolesWrite, for the given names and requests.
RoleWriteOf(names, requests, kept) ==
  \E name \in names, data \in requests, createOperation \in BOOLEAN,
     F \in Failures({"role", "put"}) :
    LET r == RoleWriteResult(GetRole(name), data, createOperation)
        err == IF "role" \in F THEN "storage"
               ELSE IF r.err # "" THEN r.err
               ELSE IF "put" \in F THEN "storage"
               ELSE ""
    IN /\ calls' = <<>>
       /\ out' = ReturnedReq("role-write", err, Nil, Nil, kept,
                              [name |-> name, data |-> data,
                               create |-> createOperation])
       /\ roles' = RolesAfterWrite(name, err, r.role)
       /\ UNCHANGED <<storedConfig, client, nextId, ver, cloudKeys, grafanaKeys,
                      leases, nextUuid, lastGet, mutMark, threadVars>>

RoleWrite == RoleWriteOf(RoleNames, RoleRequests, FALSE)

\* A delete that removes everything under roles/.
RolesAfterDeleteAll(name, err) ==
  IF err = "" THEN [n \in DOMAIN roles |-> Nil] ELSE roles

\* The role entries after pathRolesDelete: req.Storage.Delete removes the one
\* entry, or nothing when there is none.
RolesAfterDelete(name, err) ==
  IF err = "" THEN [roles EXCEPT ![name] = Nil] ELSE roles

\* pathRolesDelete, for the given names.  The request is kept with whether an
\* entry was stored when it came.
RoleDeleteOf(names, kept) ==
  \E name \in names, F \in Failures({"put"}) :
    LET err == IF "put" \in F THEN "error deleting Grafana Cloud role" ELSE ""
    IN /\ calls' = <<>>
       /\ out' = ReturnedReq("role-delete", err, Nil, Nil, kept,
                              [name |-> name, existed |-> GetRole(name) # Nil])
       /\ roles' = RolesAfterDelete(name, err)
       /\ UNCHANGED <<storedConfig, client, nextId, ver, cloudKeys, grafanaKeys,
                      leases, nextUuid, lastGet, mutMark, threadVars>>

RoleDelete == RoleDeleteOf(RoleNames, FALSE)

\* grafanaCloudRoleEntry.toResponseData: the durations as seconds.
toResponseData(r) ==
  [api_type |-> r.APIType, stack_slug |-> r.StackSlug,
   gc_role |-> r.GrafanaCloudRole, ttl |-> r.TTL, max_ttl |-> r.MaxTTL]

\* pathRolesRead: no response and no error when there is no such role.
RoleReadOf(names, kept) ==
  \E name \in names, F \in Failures({"role"}) :
    LET roleEntry == GetRole(name)
        err == IF "role" \in F THEN "storage" ELSE ""
        resp == IF err # "" \/ roleEntry = Nil THEN Nil
                ELSE Some(toResponseData(Val(roleEntry)))
    IN /\ calls' = <<>>
       /\ out' = ReturnedReq("role-read", err, resp, Nil, kept, [name |-> name])
       /\ UNCHANGED <<storedConfig, client, nextId, ver, roles, cloudKeys,
                      grafanaKeys, leases, nextUuid, lastGet, mutMark,
                      threadVars>>

\* req.Storage.List(ctx, "roles/"): the names that have an entry.
ListedRoles == {n \in DOMAIN roles : roles[n] # Nil}

\* pathRolesList
RoleList ==
  \E F \in Failures({"list"}) :
    LET err == IF "list" \in F THEN "storage" ELSE ""
    IN /\ calls' = <<>>
       /\ out' = Returned("role-list", err,
                           IF err = "" THEN Some([keys |-> ListedRoles]) ELSE Nil,
                           Nil)
       /\ UNCHANGED <<storedConfig, client, nextId, ver, roles, cloudKeys,
                      grafanaKeys, leases, nextUuid, lastGet, mutMark,
                      threadVars>>

\* Names asked for on creds/<name>.
IssueNames == {<<"A">>, <<"b">>}

\* What a handler that called the upstream leaves in the state.
Upstream(r) ==
  /\ client' = r.cache
  /\ nextId' = r.nextId
  /\ RecordGet(r.got)
  /\ calls' = r.calls
  /\ cloudKeys' = r.cloud
  /\ grafanaKeys' = r.graf

\* The secret of an issue response: the internal data, the lease times, and as
\* history the role it came from and the key that was created upstream.
Lease(key, roleName, roleEntry, r) ==
  [internal |-> InternalData(key),
   ttl |-> Override(0, roleEntry.TTL),
   maxTTL |-> Override(0, roleEntry.MaxTTL),
   role |-> roleName,
   made |-> [org |-> r.org, stack |-> key.StackSlug, name |-> key.Name,
             id |-> r.keyId]]

\* pathCredentialsRead with createUserCreds, while fewer than max keys were
\* created.
IssueUpTo(max, kept) ==
  \E name \in IssueNames : \E F \in Failures(IssuePoints(name)) :
    LET r == IssueResult(name, F)
        roleName == ToLower(name)
        lease == Lease(Val(r.key), roleName, Val(GetRole(roleName)), r)
    IN /\ CanGet
       /\ nextUuid < max
       /\ Upstream(r)
       /\ nextUuid' = IF r.created THEN nextUuid + 1 ELSE nextUuid
       /\ IF r.err = "" /\ r.key # Nil
            THEN /\ leases' = leases \cup {lease}
                 /\ out' = [ReturnedCtx("issue", "",
                                        Some(ResponseData(Val(r.key))),
                                        Some(lease), F)
                               EXCEPT !.req = Asked(kept, name)]
            ELSE /\ leases' = leases
                 /\ out' = [ReturnedCtx("issue", r.err, Nil, Nil, F)
                               EXCEPT !.req = Asked(kept, name)]
       /\ UNCHANGED <<storedConfig, ver, roles, mutMark, threadVars>>

\* Issue
Issue == IssueUpTo(MaxIssues, FALSE)

\* Issue where a second credential may follow the first.
IssueMany == IssueUpTo(MaxIssuesMany, FALSE)

\* keyRenew: the error and the secret returned.
RenewResult(secret, F) ==
  LET roleEntry == GetRole(secret.internal["role"])
  IN IF "role" \notin DOMAIN secret.internal
       THEN [err |-> "secret is missing role internal data", secret |-> Nil]
     ELSE IF secret.internal["role"] = <<>> \/ "role" \in F
       THEN [err |-> "error retrieving role", secret |-> Nil]
     ELSE IF roleEntry = Nil
       THEN [err |-> "error retrieving role: role is nil", secret |-> Nil]
     ELSE [err |-> "",
           secret |-> Some([secret EXCEPT
                              !.ttl = Override(@, Val(roleEntry).TTL),
                              !.maxTTL = Override(@, Val(roleEntry).MaxTTL)])]

\* keyRenew that obtains the client before it looks at the secret.
RenewThroughClient ==
  \E secret \in leases, F \in Failures({"role"}) :
    LET r == RenewResult(secret, F)
        g == GetClientSeq({})
    IN /\ CanGet
       /\ calls' = <<>>
       /\ client' = g.cache
       /\ nextId' = g.nextId
       /\ RecordGet(g.val)
       /\ out' = Returned("renew", r.err, r.secret, Some(secret))
       /\ UNCHANGED <<storedConfig, ver, roles, cloudKeys, grafanaKeys, leases,
                      nextUuid, mutMark, threadVars>>

\* keyRenew, called by the host with the secret of an issue response.
Renew ==
  \E secret \in leases, F \in Failures({"role"}) :
    LET r == RenewResult(secret, F)
    IN /\ calls' = <<>>
       /\ out' = Returned("renew", r.err, r.secret, Some(secret))
       /\ UNCHANGED <<storedConfig, client, nextId, ver, roles, cloudKeys,
                      grafanaKeys, leases, nextUuid, lastGet, mutMark,
                      threadVars>>

\* The error of an upstream delete: the call failed, or it reached the
\* upstream, which has no such key.
DeleteError(F) == IF "op" \in F THEN "upstream" ELSE "not found"

\* deleteGrafanaAPIKey where the cleanup is not deferred: it runs after a
\* successful delete only.
deleteGrafanaAPIKeyNoDefer(base, stackSlug, tokenID, F) ==
  LET acquire(ok) == Call("CreateTemporaryStackGrafanaClient", "", stackSlug,
                          tempKeyPrefix, 0, tempKeyTTL, ok)
      delete(ok) == Call("DeleteAPIKey", "", stackSlug, <<>>, tokenID, 0, ok)
      cleanup == Call("cleanup", "", stackSlug, tempKeyPrefix, 0, 0,
                      "cleanup" \notin F)
      k == [stack |-> stackSlug, id |-> tokenID]
  IN IF "acquire" \in F
       THEN [base EXCEPT !.err = "error creating temporary Grafana API key",
                         !.calls = <<acquire(FALSE)>>]
     ELSE IF "op" \in F \/ k \notin grafanaKeys
       THEN [base EXCEPT !.err = DeleteError(F),
                         !.calls = <<acquire(TRUE), delete(FALSE)>>]
     ELSE [base EXCEPT !.calls = <<acquire(TRUE), delete(TRUE), cleanup>>,
                       !.graf = grafanaKeys \ {k}]

\* deleteGrafanaAPIKey: the temporary stack client, DeleteAPIKey(tokenID)
\* through it, and the deferred cleanup.
deleteGrafanaAPIKey(base, stackSlug, tokenID, F) ==
  LET acquire(ok) == Call("CreateTemporaryStackGrafanaClient", "", stackSlug,
                          tempKeyPrefix, 0, tempKeyTTL, ok)
      delete(ok) == Call("DeleteAPIKey", "", stackSlug, <<>>, tokenID, 0, ok)
      cleanup == Call("cleanup", "", stackSlug, tempKeyPrefix, 0, 0,
                      "cleanup" \notin F)
      k == [stack |-> stackSlug, id |-> tokenID]
  IN IF "acquire" \in F
       THEN [base EXCEPT !.err = "error creating temporary Grafana API key",
                         !.calls = <<acquire(FALSE)>>]
     ELSE IF "op" \in F \/ k \notin grafanaKeys
       THEN [base EXCEPT !.err = DeleteError(F),
                         !.calls = <<acquire(TRUE), delete(FALSE), cleanup>>]
     ELSE [base EXCEPT !.calls = <<acquire(TRUE), delete(TRUE), cleanup>>,
                       !.graf = grafanaKeys \ {k}]

\* DeleteCloudAPIKey whose error is dropped.
deleteCloudAPIKeySwallow(base, org, tokenName, F) ==
  LET delete(ok) == Call("DeleteCloudAPIKey", org, "", tokenName, 0, 0, ok)
      k == [org |-> org, name |-> tokenName]
  IN IF "op" \in F \/ k \notin cloudKeys
       THEN [base EXCEPT !.calls = <<delete(FALSE)>>]
     ELSE [base EXCEPT !.calls = <<delete(TRUE)>>, !.cloud = cloudKeys \ {k}]

\* c.DeleteCloudAPIKey(org, tokenName)
deleteCloudAPIKey(base, org, tokenName, F) ==
  LET delete(ok) == Call("DeleteCloudAPIKey", org, "", tokenName, 0, 0, ok)
      k == [org |-> org, name |-> tokenName]
  IN IF "op" \in F \/ k \notin cloudKeys
       THEN [base EXCEPT !.err = DeleteError(F), !.calls = <<delete(FALSE)>>]
     ELSE [base EXCEPT !.calls = <<delete(TRUE)>>, !.cloud = cloudKeys \ {k}]

\* keyRevoke that takes the Cloud path only for a secret whose type entry
\* says Cloud.
RevokeResultTypeRequired(secret, F) ==
  LET g == GetClientSeq(F)
      base == [Same EXCEPT !.cache = g.cache, !.nextId = g.nextId, !.got = g.val]
      internal == secret.internal
      found == "type" \in DOMAIN internal
  IN IF g.err # "" THEN [base EXCEPT !.err = "error getting client"]
     ELSE IF "config" \in F THEN [base EXCEPT !.err = "storage"]
     ELSE IF storedConfig = Nil THEN [base EXCEPT !.err = "panic"]
     ELSE IF found /\ internal["type"] = "Cloud"
       THEN deleteCloudAPIKey(base, Val(storedConfig).Organisation,
                              internal["name"], F)
     ELSE IF "stack_slug" \notin DOMAIN internal \/ "id" \notin DOMAIN internal
       THEN [base EXCEPT !.err = "panic"]
     ELSE deleteGrafanaAPIKey(base, internal["stack_slug"],
                              ParseInt(internal["id"]), F)

\* keyRevoke
RevokeResult(secret, F) ==
  LET g == GetClientSeq(F)
      base == [Same EXCEPT !.cache = g.cache, !.nextId = g.nextId, !.got = g.val]
      internal == secret.internal
      found == "type" \in DOMAIN internal
  IN IF g.err # "" THEN [base EXCEPT !.err = "error getting client"]
     ELSE IF "config" \in F THEN [base EXCEPT !.err = "storage"]
     ELSE IF storedConfig = Nil THEN [base EXCEPT !.err = "panic"]
     ELSE IF ~found \/ internal["type"] = "Cloud"
       THEN deleteCloudAPIKey(base, Val(storedConfig).Organisation,
                              internal["name"], F)
     ELSE IF "stack_slug" \notin DOMAIN internal
       THEN [base EXCEPT !.err = "panic"]
     ELSE deleteGrafanaAPIKey(base, internal["stack_slug"],
                              ParseInt(internal["id"]), F)

\* keyRevoke, called by the host with the secret of an issue response.
Revoke ==
  \E secret \in leases : \E F \in Failures(RevokePoints(secret)) :
    LET r == RevokeResult(secret, F)
    IN /\ CanGet
       /\ Upstream(r)
       /\ out' = ReturnedCtx("revoke", r.err, Nil, Some(secret), F)
       /\ UNCHANGED <<storedConfig, ver, roles, leases, nextUuid, mutMark,
                      threadVars>>

Next ==
  \/ SeqGet
  \/ SeqConfigWrite
  \/ SeqConfigDelete
  \/ RoleWrite
  \/ RoleDelete
  \/ Issue
  \/ Renew
  \/ Revoke

Spec == Init /\ [][Next]_vars

\* Configuration, roles and issuing alone, with room for two credentials.
NextIssue ==
  \/ SeqConfigWrite
  \/ RoleWrite
  \/ IssueMany

SpecIssue == Init /\ [][NextIssue]_vars

\* The life of a role in an engine that was not configured: written, read,
\* listed, issued against and deleted, with each request kept next to its
\* response.
NextRoleLife ==
  \/ RoleWriteOf(StoredNames, RoleRequests, TRUE)
  \/ RoleDeleteOf(StoredNames, TRUE)
  \/ RoleReadOf(StoredNames, TRUE)
  \/ RoleList
  \/ IssueUpTo(MaxIssues, TRUE)

SpecRoleLife == Init /\ [][NextRoleLife]_vars

\* The role store alone, with each request kept next to its response: one
\* role takes every request, the other complete roles only.
RoleStoreWrite == RoleWriteOf(RoleNames, RoleStoreRequests, TRUE)

OtherRoleWrite == RoleWriteOf(StoredNames \ RoleNames, RoleRequests, TRUE)

NextRoles ==
  \/ RoleStoreWrite
  \/ OtherRoleWrite
  \/ RoleDeleteOf(StoredNames, TRUE)

SpecRoles == Init /\ [][NextRoles]_vars

\* The configuration store and the client cache, with each write request
\* kept next to its response.
ConfigStoreWrite == SeqConfigWriteOf(ConfigStoreRequests, MaxWrites, TRUE)

NextConfig ==
  \/ ConfigStoreWrite
  \/ SeqConfigDelete
  \/ ConfigRead
  \/ SeqGet

SpecConfig == Init /\ [][NextConfig]_vars

\* ------------------------------------------------- claims, sequential
\* C1: between two configuration changes every successful getClient returns
\* the same instance as the successful getClient before it, and the first
\* successful getClient after a successful configuration write or delete
\* returns an instance constructed after that change, hence different from
\* every instance returned before it.
C1_SequentialIdentity ==
  [][/\ lastGet' # Nil => Val(lastGet') >= mutMark'
     /\ (lastGet # Nil /\ lastGet' # Nil) => lastGet' = lastGet]_vars

\* A getClient that returned a fresh instance after a configuration change
\* which itself followed an earlier construction.
C1_Witness ==
  /\ out.op = "get"
  /\ out.err = ""
  /\ mutMark > 0
  /\ lastGet # Nil
  /\ client # Nil
  /\ Val(client).id = Val(lastGet)

\* C8: Renew called with the secret Issue produced for a role, while that
\* role is still stored, succeeds and returns the role's TTL and MaxTTL as
\* overrides, 0 leaving the secret's value in place.
C8_RenewAfterIssue ==
  (out.op = "renew" /\ GetRole(Val(out.lease).role) # Nil) =>
    LET secret == Val(out.lease)
        roleEntry == Val(GetRole(secret.role))
    IN /\ out.err = ""
       /\ out.resp # Nil
       /\ Val(out.resp).ttl = Override(secret.ttl, roleEntry.TTL)
       /\ Val(out.resp).maxTTL = Override(secret.maxTTL, roleEntry.MaxTTL)

\* The upstream deletes among the calls of the latest handler.
Deletes == {i \in DOMAIN calls : calls[i].fn \in {"DeleteCloudAPIKey", "DeleteAPIKey"}}

\* The stack clients acquired by the latest handler.
Acquires == {i \in DOMAIN calls : calls[i].fn = "CreateTemporaryStackGrafanaClient"}

\* C9: Revoke addresses what Issue recorded and nothing else: for a Cloud
\* secret the only delete is DeleteCloudAPIKey with the name of the key Issue
\* created; for a Grafana secret the stack client is acquired for the stack
\* Issue used and the only delete is DeleteAPIKey with the id of the key Issue
\* created.
C9_RevokeAddressesRecorded ==
  out.op = "revoke" =>
    LET secret == Val(out.lease)
    IN /\ Cardinality(Deletes) <= 1
       /\ \A i \in Deletes :
            IF secret.internal["type"] = CloudAPIType
              THEN /\ calls[i].fn = "DeleteCloudAPIKey"
                   /\ calls[i].name = secret.made.name
              ELSE /\ calls[i].fn = "DeleteAPIKey"
                   /\ calls[i].stack = secret.made.stack
                   /\ calls[i].id = secret.made.id
       /\ \A i \in Acquires :
            /\ secret.internal["type"] = GrafanaAPIType
            /\ calls[i].stack = secret.made.stack

\* A Grafana secret revoked: its key, with an id of two digits, deleted.
C9_Witness ==
  /\ out.op = "revoke"
  /\ out.err = ""
  /\ Val(out.lease).internal["type"] = GrafanaAPIType
  /\ \E i \in Deletes : calls[i].ok /\ calls[i].id >= 10
  /\ Acquires # {}

\* C10: the DeleteCloudAPIKey of a Revoke is sent for the organisation the
\* key was created under, whatever configuration writes came in between.
C10_RevokeSameOrganisation ==
  out.op = "revoke" =>
    \A i \in Deletes :
      calls[i].fn = "DeleteCloudAPIKey" => calls[i].org = Val(out.lease).made.org

\* --------------------------------------------- claims, scoped client
\* The privileged operations through a stack client among the calls of the
\* latest handler.
Privileged == {i \in DOMAIN calls : calls[i].fn \in {"CreateAPIKey", "DeleteAPIKey"}}

\* The cleanups of a stack client among them.
Cleanups == {i \in DOMAIN calls : calls[i].fn = "cleanup"}

\* The latest handler was an Issue or a Revoke.
KeyHandler == out.op \in {"issue", "revoke"}

\* C11: in every Issue and Revoke, a successful acquire of the stack client
\* is followed by exactly one privileged operation and then exactly one
\* cleanup, whether that operation succeeded or failed; after a failed
\* acquire there is neither, and the handler returns an error; without an
\* acquire there is neither.
C11_ScopedPairing ==
  KeyHandler =>
    /\ Cardinality(Acquires) <= 1
    /\ Acquires = {} => (Privileged = {} /\ Cleanups = {})
    /\ \A a \in Acquires :
         IF calls[a].ok
           THEN /\ Privileged = {a + 1}
                /\ Cleanups = {a + 2}
           ELSE /\ Privileged = {}
                /\ Cleanups = {}
                /\ out.err # ""

\* A Revoke whose delete through the stack client failed, and the cleanup
\* after it.
C11_Witness ==
  /\ out.op = "revoke"
  /\ \E a \in Acquires : calls[a].ok
  /\ \E i \in Privileged : ~calls[i].ok
  /\ Cleanups # {}

\* Two results of a handler that the caller cannot tell apart.
SameResult(r1, r2) ==
  /\ r1.err = r2.err
  /\ r1.key = r2.key
  /\ r1.cloud = r2.cloud
  /\ r1.graf = r2.graf

Creates == {i \in DOMAIN calls : calls[i].fn \in {"CreateCloudAPIKey", "CreateAPIKey"}}

\* C13: an Issue or Revoke whose context was cancelled before it called the
\* upstream starts no create and no delete of a key.
C13_CancelStopsUpstream ==
  (KeyHandler /\ out.cancelled) => (Creates = {} /\ Deletes = {})

\* The key a secret stands for is not at the upstream, under the organisation
\* that is configured now.
KeyGone(secret) ==
  IF secret.internal["type"] = CloudAPIType
    THEN /\ storedConfig # Nil
         /\ Val(storedConfig).Organisation = secret.made.org
         /\ [org |-> secret.made.org, name |-> secret.made.name] \notin cloudKeys
    ELSE [stack |-> secret.made.stack, id |-> secret.made.id] \notin grafanaKeys

\* C14: a Revoke whose upstream delete, or whose acquire of the stack client,
\* failed returns an error: the error of the failed call, "not found" when
\* the upstream has no such key.
C14_RevokeReportsFailure ==
  out.op = "revoke" =>
    /\ \A i \in Deletes \cup Acquires :
         ~calls[i].ok => out.err \in {"upstream", "not found",
                                      "error creating temporary Grafana API key"}
    /\ out.err = "" => \A i \in Deletes : calls[i].ok

\* A Revoke of a secret whose key was deleted before: not found.
C14_Witness ==
  /\ out.op = "revoke"
  /\ out.err = "not found"
  /\ KeyGone(Val(out.lease))
  /\ \E i \in Deletes : ~calls[i].ok

\* C15: one Issue makes at most one create call and no delete call, one
\* Revoke at most one delete call and no create call, also when it fails.
C15_NoRetry ==
  /\ out.op = "issue" => (Cardinality(Creates) <= 1 /\ Deletes = {})
  /\ out.op = "revoke" => (Cardinality(Deletes) <= 1 /\ Creates = {})

\* An Issue whose one create call failed.
C15_Witness ==
  /\ out.op = "issue"
  /\ out.err # ""
  /\ Cardinality(Creates) = 1
  /\ \A i \in Creates : ~calls[i].ok

\* C16: every CreateAPIKey of an Issue asks for a strictly positive
\* SecondsToLive.
C16_BoundedLifetime ==
  out.op = "issue" =>
    \A i \in Creates : calls[i].fn = "CreateAPIKey" => calls[i].ttl > 0

\* C17: a successful Issue through the stack client answers with the key
\* CreateAPIKey created for the name <roleName>_<uuid>: that name and the
\* decimal id of that key in the secret, its token in the response; none of
\* them is the name the stack client was acquired under.
C17_NotTheTemporaryKey ==
  (out.op = "issue" /\ out.err = ""
     /\ Val(out.lease).internal["type"] = GrafanaAPIType) =>
    LET secret == Val(out.lease)
        n == secret.made.id - FirstKeyId
    IN /\ \E i \in Creates :
            /\ calls[i].fn = "CreateAPIKey"
            /\ calls[i].ok
            /\ calls[i].name = TokenName(secret.role, Uuid(n))
            /\ secret.internal["name"] = calls[i].name
       /\ [stack |-> secret.made.stack, id |-> secret.made.id] \in grafanaKeys
       /\ secret.internal["id"] = FormatInt(secret.made.id)
       /\ Val(out.resp)["token"] = Token(n)
       /\ \A a \in Acquires :
            /\ calls[a].name = tempKeyPrefix
            /\ secret.internal["name"] # calls[a].name
            /\ Val(out.resp)["token"] # calls[a].name

\* A successful Issue through the stack client.
C17_Witness ==
  /\ out.op = "issue"
  /\ out.err = ""
  /\ Val(out.lease).internal["type"] = GrafanaAPIType
  /\ Acquires # {}
  /\ Val(out.resp)["token"] # <<>>

\* ------------------------------------------------ claims, the secret
\* The tokens the upstream has handed out.
IssuedTokens == {Token(n) : n \in 0..(nextUuid - 1)}

\* The entries createUserCreds puts into the internal data.
MetadataKeys == {"id", "name", "type", "stack_slug"}

\* The id and the name of a secret are no token.
NoTokenIn(secret) ==
  \A k \in DOMAIN secret.internal \cap {"id", "name"} :
    secret.internal[k] \notin IssuedTokens

\* C18 as stated: the internal data of every secret has no entries but id,
\* name, type and stack_slug, and none of them is a token.
C18_OnlyFourEntries ==
  \A secret \in leases :
    /\ DOMAIN secret.internal \subseteq MetadataKeys
    /\ NoTokenIn(secret)

\* C18: the internal data of every secret has the entries id, name, type,
\* stack_slug when set, and the secret_type the framework adds, and none of
\* them is a token; the token of a key is in the response of the Issue that
\* created it and in no response of another handler; Issue leaves the stored
\* configuration and the stored roles as they were.
C18_SecretNotInMetadata ==
  /\ [](/\ \A secret \in leases :
             /\ DOMAIN secret.internal \subseteq MetadataKeys \cup {"secret_type"}
             /\ secret.internal["secret_type"] = grafanaCloudKeyType
             /\ NoTokenIn(secret)
        /\ (out.op = "issue" /\ out.err = "") =>
             Val(out.resp)["token"] = Token(nextUuid - 1)
        /\ (out.op # "issue" /\ out.resp # Nil) =>
             "token" \notin DOMAIN Val(out.resp))
  /\ [][out'.op = "issue" => UNCHANGED <<storedConfig, roles>>]_vars

\* A successful Issue: its token in the response, its secret kept.
C18_Witness ==
  /\ out.op = "issue"
  /\ out.err = ""
  /\ Val(out.resp)["token"] \in IssuedTokens
  /\ Val(out.lease) \in leases

\* C19: every successful Issue yields a name that no secret issued before
\* carries and a token the upstream has not handed out before.
C19_DistinctCredentials ==
  [][(out'.op = "issue" /\ out'.err = "" /\ nextUuid' = nextUuid + 1) =>
       /\ \A secret \in leases :
            /\ secret.internal["name"] # Val(out'.lease).internal["name"]
            /\ secret.made.name # Val(out'.lease).made.name
       /\ Val(out'.resp)["token"] \notin IssuedTokens]_vars

\* A second successful Issue.
C19_Witness ==
  /\ out.op = "issue"
  /\ out.err = ""
  /\ Cardinality(leases) = 2
  /\ nextUuid = 2

\* C20: the secret of a successful Issue against a Cloud role has type Cloud
\* and no stack_slug entry, also when the role carries a stack_slug; against
\* a Grafana role it has type Grafana, the role's stack_slug, and as id the
\* non-empty decimal string of the id of the key created upstream.
C20_MetadataByKind ==
  (out.op = "issue" /\ out.err = "") =>
    LET secret == Val(out.lease)
        roleEntry == Val(GetRole(secret.role))
    IN IF roleEntry.APIType = CloudAPIType
         THEN /\ secret.internal["type"] = "Cloud"
              /\ "stack_slug" \notin DOMAIN secret.internal
         ELSE /\ secret.internal["type"] = "Grafana"
              /\ "stack_slug" \in DOMAIN secret.internal
              /\ secret.internal["stack_slug"] = roleEntry.StackSlug
              /\ secret.internal["id"] # <<>>
              /\ secret.internal["id"] = FormatInt(secret.made.id)
              /\ \A i \in 1..Len(secret.internal["id"]) :
                   IsDigit(secret.internal["id"][i])

\* A successful Issue against a Cloud role that carries a stack_slug.
C20_Witness ==
  /\ out.op = "issue"
  /\ out.err = ""
  /\ GetRole(Val(out.lease).role) # Nil
  /\ Val(GetRole(Val(out.lease).role)).APIType = CloudAPIType
  /\ Val(GetRole(Val(out.lease).role)).StackSlug # ""

\* ------------------------------------------------- claims, role store
\* The errors pathCredentialsRead builds with NewInternalError.
InternalErrors == {"error retrieving role", "error retrieving role: role is nil"}

\* The latest handler was an Issue for a name that has no stored role.
IssuedAgainstMissing ==
  /\ out.op = "issue"
  /\ out.req # Nil
  /\ GetRole(ToLower(Val(out.req).name)) = Nil

\* C21: an Issue against a role name with no stored role, never written or
\* deleted, returns an Internal error with no response and no lease, makes no
\* upstream call, and leaves the upstream keys and the leases as they were.
C21_MissingRoleIsAnError ==
  /\ [](IssuedAgainstMissing =>
          /\ out.err \in InternalErrors
          /\ out.resp = Nil
          /\ out.lease = Nil
          /\ calls = <<>>)
  /\ [][IssuedAgainstMissing' => UNCHANGED <<cloudKeys, grafanaKeys, leases>>]_vars

\* An Issue for "A" found no role "a" while role "b" was stored.
C21_Witness ==
  /\ IssuedAgainstMissing
  /\ Val(out.req).name = <<"A">>
  /\ roles[<<"b">>] # Nil
  /\ out.err = "error retrieving role: role is nil"
  /\ calls = <<>>
\* The latest handler was a role write whose request was kept.
RoleWritten == out.op = "role-write" /\ out.req # Nil

\* The role write was refused with a validation error, or failed.
Rejected == out.err # ""

\* What a role write request makes of a duration field: the value supplied,
\* else 0 on create, else the stored value.
MergedDuration(stored, request, k, f) ==
  IF k \in DOMAIN request.data THEN request.data[k]
  ELSE IF request.create \/ stored = Nil THEN 0
  ELSE Val(stored)[f]

TTLWithinMax(ttl, maxTTL) == maxTTL = 0 \/ ttl <= maxTTL

\* C22: every stored role has MaxTTL = 0 or TTL <= MaxTTL, whatever creates,
\* updates (of ttl only or max_ttl only too) and deletes came before; and a
\* role write whose merged ttl and max_ttl would break this is rejected and
\* stores nothing.
C22_TTLWithinMaxTTL ==
  /\ [](\A n \in StoredNames :
          roles[n] # Nil => TTLWithinMax(Val(roles[n]).TTL, Val(roles[n]).MaxTTL))
  /\ [][RoleWritten' =>
          LET request == Val(out'.req)
              stored == roles[request.name]
          IN ~TTLWithinMax(MergedDuration(stored, request, "ttl", "TTL"),
                           MergedDuration(stored, request, "max_ttl", "MaxTTL"))
               => Rejected' /\ roles' = roles]_vars

\* An update of ttl alone to 400 was refused for a stored role with max_ttl
\* 300, which is still stored with its ttl of 120.
C22_Witness ==
  /\ RoleWritten
  /\ Val(out.req).data = ("ttl" :> 400)
  /\ ~Val(out.req).create
  /\ out.err = "ttl cannot be greater than max_ttl"
  /\ roles[Val(out.req).name] # Nil
  /\ Val(roles[Val(out.req).name]).TTL = 120
  /\ Val(roles[Val(out.req).name]).MaxTTL = 300
\* The kind in effect for a role write: the api_type supplied, Cloud when
\* none is.
EffectiveKind(request) ==
  IF "api_type" \in DOMAIN request.data THEN request.data["api_type"]
  ELSE CloudAPIType

\* The request brings no stack_slug, or an empty one.
LacksStackSlug(request) ==
  "stack_slug" \notin DOMAIN request.data \/ request.data["stack_slug"] = ""

\* C23: every stored role of kind Grafana has a non-empty stack_slug, whatever
\* role writes came before; and a role write whose effective kind is Grafana
\* and that brings no non-empty stack_slug is rejected and stores nothing.
C23_GrafanaRoleHasStackSlug ==
  /\ [](\A n \in StoredNames :
          roles[n] # Nil /\ Val(roles[n]).APIType = GrafanaAPIType
            => Val(roles[n]).StackSlug # "")
  /\ [][RoleWritten' =>
          LET request == Val(out'.req)
          IN EffectiveKind(request) = GrafanaAPIType /\ LacksStackSlug(request)
               => Rejected' /\ roles' = roles]_vars

\* A write of kind Grafana with an empty stack_slug was refused, and the
\* Grafana role stored under that name still has its stack_slug.
C23_Witness ==
  /\ RoleWritten
  /\ EffectiveKind(Val(out.req)) = GrafanaAPIType
  /\ "stack_slug" \in DOMAIN Val(out.req).data
  /\ LacksStackSlug(Val(out.req))
  /\ out.err = "need to specify a stack_slug for Grafana API keys."
  /\ roles[Val(out.req).name] # Nil
  /\ Val(roles[Val(out.req).name]).APIType = GrafanaAPIType
  /\ Val(roles[Val(out.req).name]).StackSlug = "stack1"
\* The request fields of a role and the entry fields they are stored in.
RoleFields ==
  [api_type |-> "APIType", stack_slug |-> "StackSlug",
   gc_role |-> "GrafanaCloudRole", ttl |-> "TTL", max_ttl |-> "MaxTTL"]

\* C24: an update of a stored role that is accepted leaves every field the
\* request does not supply as it was stored; so an update of ttl alone on a
\* stored Grafana role leaves it a Grafana role.
C24_MergeOnWrite ==
  [][RoleWritten' /\ ~Rejected' =>
       LET request == Val(out'.req)
           stored == roles[request.name]
       IN ~request.create /\ stored # Nil
            => \A k \in DOMAIN RoleFields \ DOMAIN request.data :
                 Val(roles'[request.name])[RoleFields[k]] = Val(stored)[RoleFields[k]]]_vars
\* C25: a role write that names a gc_role is rejected unless the gc_role
\* belongs to the enumeration of the write's effective kind: Viewer, Admin,
\* Editor, MetricsPublisher and PluginPublisher for Cloud, and Viewer, Admin
\* and Editor for Grafana.
C25_LevelOfKind ==
  [][RoleWritten' =>
       LET request == Val(out'.req)
           levels == IF EffectiveKind(request) = GrafanaAPIType
                       THEN grafanaCloudValidRoles
                              \ {"MetricsPublisher", "PluginPublisher"}
                       ELSE grafanaCloudValidRoles
       IN "gc_role" \in DOMAIN request.data /\ request.data["gc_role"] \notin levels
            => Rejected']_vars

\* The error responses of pathRolesWrite.
ValidationErrors ==
  {"provided api_type is not valid", "provided gc_role is not valid",
   "need to specify a stack_slug for Grafana API keys.",
   "ttl cannot be greater than max_ttl"}

\* C26: a role write that returns a validation error (invalid api_type,
\* invalid gc_role, missing stack_slug, ttl above max_ttl), or any error,
\* leaves the stored role of that name and every other stored role as they
\* were.
C26_RejectedWriteStoresNothing ==
  [][out'.op = "role-write" /\ (out'.err \in ValidationErrors \/ Rejected')
       => roles' = roles]_vars

\* A write with a gc_role outside the enumeration was refused while roles were
\* stored under both names.
C26_Witness ==
  /\ RoleWritten
  /\ out.err = "provided gc_role is not valid"
  /\ Val(out.req).data = ("gc_role" :> "Nobody")
  /\ \A n \in StoredNames : roles[n] # Nil

\* The latest handler was a role delete, read or issue whose request was kept.
Handled(name) == out.op = name /\ out.req # Nil

\* C27: a role delete fails only when the storage fails, whether or not the
\* role exists; a delete that succeeded leaves no role under the name and
\* every other role as it was.  While no role is stored under a name, a read
\* of it returns no role, a list does not contain it, and an Issue against it
\* fails with the Internal error for a missing role.
C27_DeleteUnconditional ==
  /\ [][Handled("role-delete")' =>
          LET name == Val(out'.req).name
          IN /\ out'.err \in {"", "error deleting Grafana Cloud role"}
             /\ out'.err = "" => roles'[name] = Nil
             /\ \A n \in StoredNames \ {name} : roles'[n] = roles[n]]_vars
  /\ [](Handled("role-read") /\ roles[Val(out.req).name] = Nil
          => out.resp = Nil)
  /\ [](out.op = "role-list" /\ out.err = ""
          => \A n \in StoredNames : roles[n] = Nil => n \notin Val(out.resp).keys)
  /\ [](Handled("issue") /\ roles[ToLower(Val(out.req).name)] = Nil
          => out.err \in InternalErrors /\ out.lease = Nil)

\* A delete of a name with no role succeeded and left the role stored under
\* the other name.
C27_Witness ==
  /\ Handled("role-delete")
  /\ ~Val(out.req).existed
  /\ out.err = ""
  /\ roles[Val(out.req).name] = Nil
  /\ \E n \in StoredNames : roles[n] # Nil

\* ------------------------------------------ claims, configuration store
\* C28: a configuration present in storage has a non-empty organisation, a
\* non-empty key and an absolute URL, whatever creates, updates and deletes
\* came before.
C28_StoredConfigValid ==
  storedConfig # Nil =>
    /\ Val(storedConfig).Organisation # ""
    /\ Val(storedConfig).Key # ""
    /\ ValidAbsURL(Val(storedConfig).URL)

\* The latest handler was a configuration write or delete that failed.
ConfigChangeFailed ==
  out.op \in {"config-write", "config-delete"} /\ out.err # ""

\* C29: a configuration write that is rejected, or a write or delete whose
\* storage access fails, leaves the stored configuration and the cached
\* client as they were; and a configuration read returns the stored fields.
C29_FailedChangeChangesNothing ==
  /\ [][ConfigChangeFailed' => storedConfig' = storedConfig /\ client' = client]_vars
  /\ [](out.op = "config-read" /\ out.err = ""
          => \A k \in ConfigFields :
               Val(out.resp)[k] = Val(storedConfig)[ConfigFieldOf[k]])

\* An update with a prometheus_url that is not absolute was refused while a
\* configuration was stored and a client was cached; both are still there.
C29_Witness ==
  /\ ConfigChangeFailed
  /\ out.err = "invalid prometheus_url in configuration"
  /\ storedConfig # Nil
  /\ Val(storedConfig).PrometheusURL = <<>>
  /\ client # Nil

\* The latest handler was a configuration write that succeeded, with its
\* request kept.
ConfigWritten == out.op = "config-write" /\ out.err = "" /\ out.req # Nil

\* The value stored before a write in the field of request field k: empty
\* when nothing was stored.
StoredBefore(stored, k) ==
  IF stored = Nil THEN EmptyConfig[ConfigFieldOf[k]]
  ELSE Val(stored)[ConfigFieldOf[k]]

\* C30 as stated: after a successful configuration write the stored
\* configuration has the supplied value in every field supplied and is empty
\* in every other field.
C30_ReplacedWholesale ==
  [][ConfigWritten' =>
       \A k \in ConfigFields :
         Val(storedConfig')[ConfigFieldOf[k]] =
           IF k \in DOMAIN Val(out'.req).data THEN Val(out'.req).data[k]
           ELSE EmptyConfig[ConfigFieldOf[k]]]_vars

\* C30, amended: after a successful configuration write the stored
\* configuration has the supplied value in every field supplied and the value
\* stored before, empty when nothing was stored, in every other field; user
\* has the value of prometheus_user when prometheus_user is supplied.
C30_SuppliedOverStored ==
  [][ConfigWritten' =>
       LET data == Val(out'.req).data
       IN \A k \in ConfigFields :
            Val(storedConfig')[ConfigFieldOf[k]] =
              IF k = "user" /\ "prometheus_user" \in DOMAIN data
                THEN data["prometheus_user"]
              ELSE IF k \in DOMAIN data THEN data[k]
              ELSE StoredBefore(storedConfig, k)]_vars

\* An update that supplied prometheus_user and loki_url was accepted: both are
\* stored, user follows prometheus_user, and the key stored before is kept.
C30_Witness ==
  /\ ConfigWritten
  /\ DOMAIN Val(out.req).data = {"prometheus_user", "loki_url"}
  /\ Val(storedConfig).PrometheusUser = "u1"
  /\ Val(storedConfig).User = "u1"
  /\ Val(storedConfig).LokiURL = UrlProm
  /\ Val(storedConfig).Key = "k1"

\* The latest handler was a configuration update that succeeded.
ConfigUpdated == ConfigWritten /\ ~Val(out.req).create

\* C31 as stated: after a successful configuration update a read returns the
\* supplied value for every field supplied and the value stored before for
\* every other field.
C31_UpdateKeepsOthers ==
  [][ConfigUpdated' =>
       LET data == Val(out'.req).data
           before == ConfigReadData(Val(storedConfig))
           after == ConfigReadData(Val(storedConfig'))
       IN \A k \in ConfigFields :
            after[k] = IF k \in DOMAIN data THEN data[k] ELSE before[k]]_vars

\* C31, amended: the same for every field but user; user reads as the
\* prometheus_user supplied when the update supplies one, and as any other
\* field when it does not.
C31_UpdateKeepsOthersButUser ==
  [][ConfigUpdated' =>
       LET data == Val(out'.req).data
           before == ConfigReadData(Val(storedConfig))
           after == ConfigReadData(Val(storedConfig'))
       IN /\ \A k \in ConfigFields \ {"user"} :
               after[k] = IF k \in DOMAIN data THEN data[k] ELSE before[k]
          /\ after["user"] =
               IF "prometheus_user" \in DOMAIN data THEN data["prometheus_user"]
               ELSE IF "user" \in DOMAIN data THEN data["user"]
               ELSE before["user"]]_vars

\* An update of organisation alone was accepted and the key and url stored
\* before are read back with the new organisation.
C31_Witness ==
  /\ ConfigUpdated
  /\ DOMAIN Val(out.req).data = {"organisation"}
  /\ ConfigReadData(Val(storedConfig))["organisation"] = "org2"
  /\ ConfigReadData(Val(storedConfig))["key"] = "k1"
  /\ ConfigReadData(Val(storedConfig))["url"] = UrlApiSl
\* --------------------------------------------------- claims, revocation
\* The secret of a lease made before the internal data had a type entry: the
\* name of the key and the secret_type, and the key it stands for.
LegacySecret ==
  [internal |-> [k \in {"name", "secret_type"} |->
                   IF k = "name" THEN <<"o", "l", "d">> ELSE grafanaCloudKeyType],
   ttl |-> 0,
   maxTTL |-> 0,
   role |-> <<"a">>,
   made |-> [org |-> "org1", stack |-> "", name |-> <<"o", "l", "d">>, id |-> 0]]

\* An engine that carries such a lease, its key live under org1, the
\* organisation it is configured for.
InitLegacy ==
  /\ leases = {LegacySecret}
  /\ cloudKeys = {[org |-> "org1", name |-> LegacySecret.made.name]}
  /\ storedConfig = Some(ConfigWriteResult(Nil, FirstConfig.data, TRUE).config)
  /\ client = Nil
  /\ lockW = NoThread
  /\ readers = {}
  /\ rWait = {}
  /\ pc = [t \in Threads |-> "idle"]
  /\ op = [t \in Threads |-> "idle"]
  /\ lcfg = [t \in Threads |-> NoLocal]
  /\ res = [t \in Threads |-> NoResult]
  /\ nextId = 0
  /\ ver = 0
  /\ startMark = [t \in Threads |-> 0]
  /\ resetMark = 0
  /\ putVer = [t \in Threads |-> 0]
  /\ builds = 0
  /\ acq = [t \in Threads |-> NoLocks]
  /\ rel = [t \in Threads |-> NoLocks]
  /\ roles = [n \in StoredNames |-> Nil]
  /\ grafanaKeys = {}
  /\ calls = <<>>
  /\ out = NoOut
  /\ nextUuid = 0
  /\ lastGet = Nil
  /\ mutMark = 0

\* A configuration update that moves the engine to another organisation.
OrganisationWrite ==
  SeqConfigWriteOf({r \in ConfigRequests : ~r.create}, MaxMut, FALSE)

\* Configuration, roles, issuing, renewing and revoking in that engine.
NextRevoke ==
  \/ OrganisationWrite
  \/ RoleWrite
  \/ Issue
  \/ Renew
  \/ Revoke

SpecRevoke == InitLegacy /\ [][NextRevoke]_vars

\* The secret of the latest Revoke has no type entry, or the type Cloud.
RevokedAsCloud ==
  LET internal == Val(out.lease).internal
  IN "type" \notin DOMAIN internal \/ internal["type"] = CloudAPIType

\* The latest Revoke had the client and the configuration in hand.
RevokeReachedUpstream ==
  /\ storedConfig # Nil
  /\ out.err \notin {"error getting client", "storage"}

\* C32: a Revoke of a secret without a type entry, or with the type Cloud,
\* acquires no stack client, and once it has the client and the configuration
\* it makes one call, DeleteCloudAPIKey with the organisation configured now
\* and the recorded name; a Revoke of any other secret makes no
\* DeleteCloudAPIKey call, and only such a Revoke acquires a stack client.
C32_RevokeDefaultsToCloud ==
  out.op = "revoke" =>
    IF RevokedAsCloud
      THEN /\ Acquires = {}
           /\ \A i \in DOMAIN calls :
                /\ calls[i].fn = "DeleteCloudAPIKey"
                /\ calls[i].org = Val(storedConfig).Organisation
                /\ calls[i].name = Val(out.lease).internal["name"]
           /\ RevokeReachedUpstream => Len(calls) = 1
      ELSE /\ \A i \in DOMAIN calls : calls[i].fn # "DeleteCloudAPIKey"
           /\ RevokeReachedUpstream => Acquires # {}

\* The secret without a type entry was revoked: its key was deleted under the
\* organisation configured.
C32_Witness ==
  /\ out.op = "revoke"
  /\ out.err = ""
  /\ "type" \notin DOMAIN Val(out.lease).internal
  /\ \E i \in DOMAIN calls :
       /\ calls[i].fn = "DeleteCloudAPIKey"
       /\ calls[i].ok
       /\ calls[i].org = "org1"
  /\ cloudKeys = {}
\* C33: a Renew makes no upstream call, obtains and constructs no client,
\* creates and deletes no key, and leaves the stored configuration, the stored
\* roles and the cached client as they were, whatever it returns.
C33_RenewIsLocal ==
  [][out'.op = "renew" =>
       /\ calls' = <<>>
       /\ UNCHANGED <<storedConfig, roles, client, nextId, lastGet, cloudKeys,
                      grafanaKeys, leases>>]_vars

\* A Renew returned for the secret of a live key while no client was cached
\* and a configuration and a role were stored.
C33_Witness ==
  /\ out.op = "renew"
  /\ calls = <<>>
  /\ client = Nil
  /\ storedConfig # Nil
  /\ GetRole(Val(out.lease).role) # Nil
  /\ cloudKeys \cup grafanaKeys # {}
\* --------------------------------------------------- claims, lifetimes
\* C34: the lifetime an Issue hands to CreateAPIKey is the TTL of a stored
\* Grafana role for that stack, in seconds, and of the role asked for when
\* the Issue succeeds; the lease of a successful Issue carries the TTL of the
\* role when that is above 0, and its MaxTTL when that is above 0.
C34_LifetimeFromRole ==
  out.op = "issue" =>
    /\ \A i \in Creates :
         calls[i].fn = "CreateAPIKey" =>
           \E n \in StoredNames :
             /\ GetRole(n) # Nil
             /\ Val(GetRole(n)).APIType = GrafanaAPIType
             /\ Val(GetRole(n)).StackSlug = calls[i].stack
             /\ Val(GetRole(n)).TTL = calls[i].ttl
    /\ out.err = "" =>
         LET secret == Val(out.lease)
             roleEntry == Val(GetRole(secret.role))
         IN /\ \A i \in Creates :
                 calls[i].fn = "CreateAPIKey" => calls[i].ttl = roleEntry.TTL
            /\ roleEntry.TTL > 0 => secret.ttl = roleEntry.TTL
            /\ roleEntry.MaxTTL > 0 => secret.maxTTL = roleEntry.MaxTTL

\* A credential issued through the stack client for a role with a TTL of 120
\* and a MaxTTL of 300 seconds.
C34_Witness ==
  /\ out.op = "issue"
  /\ out.err = ""
  /\ \E i \in Creates :
       calls[i].fn = "CreateAPIKey" /\ calls[i].ok /\ calls[i].ttl = 120
  /\ Val(out.lease).ttl = 120
  /\ Val(out.lease).maxTTL = 300
\* --------------------------------------------------- claims, base URL
\* A URL with one trailing api or api/ path segment, in any case, removed, and
\* nothing else changed.
WithoutApiSegment(u) ==
  IF HasSuffix(ToLower(u), <<"/">> \o apiSuffix)
    THEN SubSeq(u, 1, Len(u) - 3)
  ELSE IF HasSuffix(ToLower(u), <<"/">> \o apiSuffix \o <<"/">>)
    THEN SubSeq(u, 1, Len(u) - 4)
  ELSE u

\* C35: the cached client was built for the configured URL with one trailing
\* api or api/ path segment removed, and otherwise as configured.
C35_BaseUrlAsConfigured ==
  (client # Nil /\ storedConfig # Nil) =>
    Val(client).url = WithoutApiSegment(Val(storedConfig).URL)
\* --------------------------------------------------- claims, users
\* Requests of the configuration write handler that set the users.
UserRequests ==
  { [create |-> TRUE,
     data |-> ("organisation" :> "org1" @@ "key" :> "k1" @@ "url" :> UrlApiSl
                 @@ "user" :> "u0" @@ "prometheus_user" :> "u1")],
    [create |-> FALSE, data |-> ("user" :> "u2")],
    [create |-> FALSE, data |-> ("prometheus_user" :> "")] }

UserConfigWrite == SeqConfigWriteOf(UserRequests, MaxWrites, TRUE)

\* Configuration with users, roles and issuing.
NextUser ==
  \/ UserConfigWrite
  \/ RoleWrite
  \/ Issue

SpecUser == Init /\ [][NextUser]_vars

\* The entry k of response data, empty when the data carry no such entry.
Entry(data, k) == IF k \in DOMAIN data THEN data[k] ELSE ""

\* The latest handler was a configuration write that supplied prometheus_user
\* and succeeded.
PrometheusUserWritten ==
  ConfigWritten /\ "prometheus_user" \in DOMAIN Val(out.req).data

IssueThread == "t1"

\* pathCredentialsRead up to the return of b.getClient in createKey: the role
\* and the client are in the handler's hands.
IssueGetClient ==
  \E name \in IssueNames :
    LET roleName == ToLower(name)
        roleEntry == GetRole(roleName)
        g == GetClientSeq({})
    IN /\ pc[IssueThread] = "idle"
       /\ roleEntry # Nil
       /\ CanGet
       /\ nextUuid < MaxIssues
       /\ client' = g.cache
       /\ nextId' = g.nextId
       /\ RecordGet(g.val)
       /\ pc' = [pc EXCEPT ![IssueThread] = "k_config"]
       /\ op' = [op EXCEPT ![IssueThread] = "issue"]
       /\ res' = [res EXCEPT ![IssueThread] =
                    [val |-> g.val, err |-> "", roleName |-> roleName,
                     roleEntry |-> Val(roleEntry)]]
       /\ UNCHANGED <<storedConfig, ver, roles, cloudKeys, grafanaKeys, leases,
                      calls, out, nextUuid, mutMark, lockW, readers, rWait, lcfg,
                      startMark, resetMark, putVer, builds, acq, rel>>

\* b.createKey from getConfig on, with the client obtained before.
createKeyWithClient(local, F) ==
  LET base == [Same EXCEPT !.got = local.val]
      roleEntry == local.roleEntry
      made ==
        IF roleEntry.APIType = CloudAPIType
          THEN IF storedConfig = Nil
                 THEN [base EXCEPT !.err = "panic"]
               ELSE createCloudKey(base, Val(storedConfig).Organisation,
                                   local.roleName, Val(storedConfig),
                                   roleEntry.GrafanaCloudRole, F)
          ELSE createGrafanaKey(base, roleEntry.StackSlug, local.roleName,
                                roleEntry.TTL, storedConfig,
                                roleEntry.GrafanaCloudRole, F)
  IN IF "config" \in F
       THEN [base EXCEPT !.err = "error reading secrets engine configuration"]
     ELSE IF made.err \notin {"", "panic"}
       THEN [made EXCEPT !.err = "error creating Grafana Cloud token"]
     ELSE made

\* The rest of the Issue: getConfig, the upstream call through the client in
\* hand, and the response.
IssueCall ==
  \E F \in Failures({"config", "op"}) :
    LET local == res[IssueThread]
        r == createKeyWithClient(local, F)
        lease == Lease(Val(r.key), local.roleName, local.roleEntry, r)
    IN /\ pc[IssueThread] = "k_config"
       /\ pc' = [pc EXCEPT ![IssueThread] = "idle"]
       /\ op' = [op EXCEPT ![IssueThread] = "idle"]
       /\ res' = [res EXCEPT ![IssueThread] = NoResult]
       /\ calls' = r.calls
       /\ cloudKeys' = r.cloud
       /\ grafanaKeys' = r.graf
       /\ nextUuid' = IF r.created THEN nextUuid + 1 ELSE nextUuid
       /\ IF r.err = "" /\ r.key # Nil
            THEN /\ leases' = leases \cup {lease}
                 /\ out' = Returned("issue", "", Some(ResponseData(Val(r.key))),
                                    Some(lease))
            ELSE /\ leases' = leases
                 /\ out' = Returned("issue", r.err, Nil, Nil)
       /\ UNCHANGED <<storedConfig, client, nextId, ver, roles, lastGet, mutMark,
                      lockW, readers, rWait, lcfg, startMark, resetMark, putVer,
                      builds, acq, rel>>

NextInFlight ==
  \/ SeqConfigWrite
  \/ RoleWrite
  \/ IssueGetClient
  \/ IssueCall

SpecInFlight == Init /\ [][NextInFlight]_vars

\* C37: when an Issue calls the upstream, the client it calls through was
\* built from the version of the stored configuration it reads the
\* organisation from.
C37_ClientAndOrganisationAgree ==
  [][(pc[IssueThread] = "k_config" /\ calls' # <<>>) =>
       Val(res[IssueThread].val).ver = ver]_vars
\* --------------------------------------------- claims, no configuration
\* C38: while no configuration is stored, a configuration read, an Issue and
\* a Revoke each return a response or an error; none of them stops in a
\* dereference of the configuration that is not there.
C38_NoFaultWithoutConfig ==
  (storedConfig = Nil /\ out.op \in {"config-read", "issue", "revoke"}) =>
    out.err # "panic"
\* --------------------------------------------------- claims, role names
\* Role names as the roles path takes them: a name in lower case and the same
\* name with an upper-case letter.
CasedNames == {<<"a">>, <<"A">>}

\* The engine after construction, with the storage keys of those names.
InitCased ==
  /\ roles = [n \in CasedNames |-> Nil]
  /\ storedConfig = Nil
  /\ client = Nil
  /\ lockW = NoThread
  /\ readers = {}
  /\ rWait = {}
  /\ pc = [t \in Threads |-> "idle"]
  /\ op = [t \in Threads |-> "idle"]
  /\ lcfg = [t \in Threads |-> NoLocal]
  /\ res = [t \in Threads |-> NoResult]
  /\ nextId = 0
  /\ ver = 0
  /\ startMark = [t \in Threads |-> 0]
  /\ resetMark = 0
  /\ putVer = [t \in Threads |-> 0]
  /\ builds = 0
  /\ acq = [t \in Threads |-> NoLocks]
  /\ rel = [t \in Threads |-> NoLocks]
  /\ cloudKeys = {}
  /\ grafanaKeys = {}
  /\ leases = {}
  /\ calls = <<>>
  /\ out = NoOut
  /\ nextUuid = 0
  /\ lastGet = Nil
  /\ mutMark = 0

CasedRoleWrite == RoleWriteOf(CasedNames, RoleRequests, TRUE)

\* Issue with the name of the request kept next to its response.
IssueAsked == IssueUpTo(MaxIssues, TRUE)

\* Configuration, roles under both names, and issuing.
NextCased ==
  \/ SeqConfigWrite
  \/ CasedRoleWrite
  \/ IssueAsked

SpecCased == InitCased /\ [][NextCased]_vars

\* C39: an Issue on creds/n, with a role stored under roles/n and read
\* without a storage failure, finds a role, and the credential it returns is
\* one of the role n.
C39_IssuableUnderOwnName ==
  (/\ out.op = "issue"
   /\ out.req # Nil
   /\ GetRole(Val(out.req).name) # Nil
   /\ out.err # "error retrieving role") =>
    /\ out.err # "error retrieving role: role is nil"
    /\ out.err = "" => Val(out.lease).role = Val(out.req).name
\* --------------------------------------------------- claims, gc_role
\* C40: a role create without gc_role that meets no other error is answered
\* with "missing gc_role value", so that the role it would store, one
\* without a gc_role of the valid set, is not stored.
C40_CreateNeedsLevel ==
  (RoleWritten /\ Val(out.req).create
     /\ "gc_role" \notin DOMAIN Val(out.req).data
     /\ out.err \notin ValidationErrors \cup {"storage"}) =>
    /\ out.err = "missing gc_role value"
    /\ GetRole(Val(out.req).name) # Nil =>
         Val(GetRole(Val(out.req).name)).GrafanaCloudRole \in grafanaCloudValidRoles
====
